---- MODULE Spec2Model ----
(***************************************************************************)
(* Block tree data model of pySMSpp (pysmspp/block.py) and its netCDF      *)
(* serialization.  A Block owns four ordered name->entity mappings; an     *)
(* SMSNetwork is a Block carrying the "SMS++_file_type" attribute.         *)
(* to_netcdf walks the tree depth-first into a container file and          *)
(* from_netcdf walks a container back into a tree.                         *)
(***************************************************************************)
EXTENDS Integers, Sequences, FiniteSets, TLC

\* ------------------------------------------------------------------------
\* Bounds of the exploration

\* number of API calls explored after construction
MaxOps == 3

\* ------------------------------------------------------------------------
\* Python scalar values: an int or a str, told apart by kind

IntV(i) == [kind |-> "int", i |-> i, s |-> ""]

StrV(s) == [kind |-> "str", i |-> 0, s |-> s]

\* class SMSFileType(IntEnum): the members are ints
eProbFile == 0

eBlockFile == 1

eConfigFile == 2

eSolutionFile == 3

SMSFileType == {eProbFile, eBlockFile, eConfigFile, eSolutionFile}

FILE_TYPE == "SMS++_file_type"

\* ------------------------------------------------------------------------
\* Dict: an insertion-ordered mapping, a sequence of [key, val] entries

Dict == << >>

Keys(d) == {d[i].key : i \in 1..Len(d)}

Has(d, k) == \E i \in 1..Len(d) : d[i].key = k

IndexOf(d, k) == CHOOSE i \in 1..Len(d) : d[i].key = k

Get(d, k) == d[IndexOf(d, k)].val

\* d[k] = v : an existing key keeps its position, a new key is appended
Put(d, k, v) ==
    IF Has(d, k)
    THEN [i \in 1..Len(d) |-> IF d[i].key = k THEN [key |-> k, val |-> v] ELSE d[i]]
    ELSE Append(d, [key |-> k, val |-> v])

\* d.pop(k) for a key that is present
Pop(d, k) ==
    LET n == IndexOf(d, k)
    IN  [i \in 1..(Len(d) - 1) |-> IF i < n THEN d[i] ELSE d[i + 1]]

\* ------------------------------------------------------------------------
\* Entity records

\* Attribute(name, value) and Dimension(name, value); a mapping may also
\* hold a bare value (wrapped = FALSE), as the file_type setter stores one
Attribute(name, value) == [wrapped |-> TRUE, name |-> name, value |-> value]

Dimension(name, value) == [wrapped |-> TRUE, name |-> name, value |-> value]

Bare(value) == [wrapped |-> FALSE, name |-> "", value |-> value]

\* data of a Variable: a scalar (one element) or a one-dimensional array
ScalarData(x) == [scalar |-> TRUE, elems |-> <<x>>]

ArrayData(xs) == [scalar |-> FALSE, elems |-> xs]

\* the dimensions argument of Variable(...): None or a tuple of names
NoneDims == [none |-> TRUE, names |-> << >>]

Dims(names) == [none |-> FALSE, names |-> names]

\* Variable.__init__: dimensions=None is normalized to ()
Variable(name, var_type, dimensions, data) ==
    [name |-> name,
     var_type |-> var_type,
     dimensions |-> IF dimensions.none THEN << >> ELSE dimensions.names,
     data |-> data]

\* Block(): four empty mappings
EmptyBlock ==
    [attributes |-> Dict, dimensions |-> Dict, variables |-> Dict, blocks |-> Dict]

\* ------------------------------------------------------------------------
\* Values passed to the mutation API: a python scalar, an Attribute, a
\* Dimension, a Variable or a Block object

NoVar == Variable("", "", NoneDims, ScalarData(0))

ScalarArg(v) == [vk |-> "scalar", name |-> "", val |-> v, var |-> NoVar, blk |-> EmptyBlock]

AttributeArg(n, v) == [vk |-> "Attribute", name |-> n, val |-> v, var |-> NoVar, blk |-> EmptyBlock]

DimensionArg(n, v) == [vk |-> "Dimension", name |-> n, val |-> v, var |-> NoVar, blk |-> EmptyBlock]

VariableArg(v) == [vk |-> "Variable", name |-> "", val |-> IntV(0), var |-> v, blk |-> EmptyBlock]

BlockArg(b) == [vk |-> "Block", name |-> "", val |-> IntV(0), var |-> NoVar, blk |-> b]

\* keyword payload of from_kwargs / add_block: an optional block_type and
\* the remaining keywords in order
NoType == [given |-> FALSE, t |-> StrV("")]

TypeKw(t) == [given |-> TRUE, t |-> StrV(t)]

Kwargs(bt, fields) == [block_type |-> bt, fields |-> fields]

NoKwargs == Kwargs(NoType, << >>)

Field(k, a) == [key |-> k, arg |-> a]

\* ------------------------------------------------------------------------
\* Component schema (data/components.csv and data/blocks/*.csv)

components ==
    [c \in {"Attribute", "Dimension", "Variable", "Block", "UCBlock", "ThermalUnitBlock"} |->
        CASE c = "Attribute" -> [nctype |-> "Attribute", list_name |-> "attributes"]
          [] c = "Dimension" -> [nctype |-> "Dimension", list_name |-> "dimensions"]
          [] c = "Variable" -> [nctype |-> "Variable", list_name |-> "variables"]
          [] OTHER -> [nctype |-> "Block", list_name |-> "blocks"]]

\* blocks[block_type]: attribute name -> smspp_object
blocks ==
    [t \in {"UCBlock", "ThermalUnitBlock", "FooBlock"} |->
        CASE t = "UCBlock" ->
                << [key |-> "id", val |-> "Attribute"],
                   [key |-> "TimeHorizon", val |-> "Dimension"],
                   [key |-> "NumberUnits", val |-> "Dimension"],
                   [key |-> "ActivePowerDemand", val |-> "Variable"],
                   [key |-> "GeneratorNode", val |-> "Variable"],
                   [key |-> "UnitBlock", val |-> "Block"] >>
          [] t = "ThermalUnitBlock" ->
                << [key |-> "MinPower", val |-> "Variable"],
                   [key |-> "MaxPower", val |-> "Variable"] >>
          [] t = "FooBlock" ->
                << [key |-> "Foo", val |-> "Block"],
                   [key |-> "FooBar", val |-> "Block"],
                   [key |-> "FooBar_n", val |-> "Dimension"],
                   [key |-> "Bar", val |-> "Block"] >>]

\* the names that occur as attribute names, and their characters
Names ==
    {"id", "TimeHorizon", "NumberUnits", "ActivePowerDemand", "GeneratorNode",
     "UnitBlock", "UnitBlock_0", "UnitBlock_1", "MinPower", "MaxPower",
     "Block_0", "type", "Fo", "Foo", "Foo_1",
     "FooBar", "FooBar_1", "FooBar_n", "Bar", "SMS++_file_type"}

Spelling ==
    [n \in Names |->
        CASE n = "id" ->
                <<"i", "d">>
          [] n = "TimeHorizon" ->
                <<"T", "i", "m", "e", "H", "o", "r", "i", "z", "o", "n">>
          [] n = "NumberUnits" ->
                <<"N", "u", "m", "b", "e", "r", "U", "n", "i", "t", "s">>
          [] n = "ActivePowerDemand" ->
                <<"A", "c", "t", "i", "v", "e", "P", "o", "w", "e", "r", "D", "e", "m", "a", "n", "d">>
          [] n = "GeneratorNode" ->
                <<"G", "e", "n", "e", "r", "a", "t", "o", "r", "N", "o", "d", "e">>
          [] n = "UnitBlock" ->
                <<"U", "n", "i", "t", "B", "l", "o", "c", "k">>
          [] n = "UnitBlock_0" ->
                <<"U", "n", "i", "t", "B", "l", "o", "c", "k", "_", "0">>
          [] n = "UnitBlock_1" ->
                <<"U", "n", "i", "t", "B", "l", "o", "c", "k", "_", "1">>
          [] n = "MinPower" ->
                <<"M", "i", "n", "P", "o", "w", "e", "r">>
          [] n = "MaxPower" ->
                <<"M", "a", "x", "P", "o", "w", "e", "r">>
          [] n = "Block_0" ->
                <<"B", "l", "o", "c", "k", "_", "0">>
          [] n = "type" ->
                <<"t", "y", "p", "e">>
          [] n = "Fo" ->
                <<"F", "o">>
          [] n = "Foo" ->
                <<"F", "o", "o">>
          [] n = "Foo_1" ->
                <<"F", "o", "o", "_", "1">>
          [] n = "FooBar" ->
                <<"F", "o", "o", "B", "a", "r">>
          [] n = "FooBar_1" ->
                <<"F", "o", "o", "B", "a", "r", "_", "1">>
          [] n = "FooBar_n" ->
                <<"F", "o", "o", "B", "a", "r", "_", "n">>
          [] n = "Bar" ->
                <<"B", "a", "r">>
          [] n = "SMS++_file_type" ->
                <<"S", "M", "S", "+", "+", "_", "f", "i", "l", "e", "_", "t", "y", "p", "e">>]

\* the pairs <<s, p>> of different names with s.startswith(p)
ProperPrefixes ==
    {<<"UnitBlock_0", "UnitBlock">>, <<"UnitBlock_1", "UnitBlock">>,
     <<"Foo", "Fo">>, <<"Foo_1", "Fo">>, <<"FooBar", "Fo">>, <<"FooBar_1", "Fo">>,
     <<"FooBar_n", "Fo">>, <<"Foo_1", "Foo">>, <<"FooBar", "Foo">>,
     <<"FooBar_1", "Foo">>, <<"FooBar_n", "Foo">>, <<"FooBar_1", "FooBar">>,
     <<"FooBar_n", "FooBar">>}

\* str.startswith
startswith(s, p) == s = p \/ <<s, p>> \in ProperPrefixes

None == [given |-> FALSE, v |-> StrV("")]

Some(v) == [given |-> TRUE, v |-> v]

\* get_attr_field(block_type, attr_name, "smspp_object"); bt is the value of
\* Block.block_type
get_attr_field_first(bt, attr_name) ==
    IF ~bt.given \/ bt.v.kind # "str" \/ bt.v.s \notin DOMAIN blocks
    THEN [err |-> "KeyError", msg |-> "", attr |-> "", smspp_object |-> ""]
    ELSE
    LET tab == blocks[bt.v.s]
        simple_attrs == {i \in 1..Len(tab) : tab[i].val # "Block"}
        block_attrs == {i \in 1..Len(tab) : tab[i].val = "Block"}
        attr_sel == {i \in block_attrs : startswith(attr_name, tab[i].key)}
    IN  IF \E i \in simple_attrs : tab[i].key = attr_name
        THEN [err |-> "ok", msg |-> "", attr |-> attr_name,
              smspp_object |-> Get(tab, attr_name)]
        ELSE IF attr_sel # {}
        THEN LET i == CHOOSE j \in attr_sel : \A k \in attr_sel : j <= k
             IN  [err |-> "ok", msg |-> "", attr |-> tab[i].key,
                  smspp_object |-> tab[i].val]
        ELSE [err |-> "ValueError", msg |-> "not found", attr |-> "",
              smspp_object |-> ""]

get_attr_field(bt, attr_name) ==
    IF ~bt.given \/ bt.v.kind # "str" \/ bt.v.s \notin DOMAIN blocks
    THEN [err |-> "KeyError", msg |-> "", attr |-> "", smspp_object |-> ""]
    ELSE
    LET tab == blocks[bt.v.s]
        simple_attrs == {i \in 1..Len(tab) : tab[i].val # "Block"}
        block_attrs == {i \in 1..Len(tab) : tab[i].val = "Block"}
        attr_sel == {i \in block_attrs : startswith(attr_name, tab[i].key)}
    IN  IF \E i \in simple_attrs : tab[i].key = attr_name
        THEN [err |-> "ok", msg |-> "", attr |-> attr_name,
              smspp_object |-> Get(tab, attr_name)]
        ELSE IF Cardinality(attr_sel) = 1
        THEN LET i == CHOOSE j \in attr_sel : TRUE
             IN  [err |-> "ok", msg |-> "", attr |-> tab[i].key,
                  smspp_object |-> tab[i].val]
        ELSE IF attr_sel = {}
        THEN [err |-> "ValueError", msg |-> "not found", attr |-> "",
              smspp_object |-> ""]
        ELSE [err |-> "ValueError", msg |-> "Ambiguous", attr |-> "",
              smspp_object |-> ""]

\* ------------------------------------------------------------------------
\* Arguments of one call of add / add_attribute / add_dimension /
\* add_variable / add_block: the positional values (none or one), force,
\* the keyword block=, the keywords var_type=, dimensions=, data=, the
\* keyword block_type= and the remaining keywords

NoBlockKw == [given |-> FALSE, arg |-> ScalarArg(IntV(0))]

BlockKw(a) == [given |-> TRUE, arg |-> a]

NoVarKw == [given |-> FALSE, var_type |-> "", dimensions |-> NoneDims, data |-> ScalarData(0)]

VarKw(t, d, x) == [given |-> TRUE, var_type |-> t, dimensions |-> d, data |-> x]

Call(args, force) ==
    [args |-> args, force |-> force, block |-> NoBlockKw, vkw |-> NoVarKw,
     block_type |-> NoType, fields |-> << >>]

Ok(b) == [err |-> "ok", blk |-> b]

Raise(e, b) == [err |-> e, blk |-> b]

\* ------------------------------------------------------------------------
\* Block: properties and mutation API

\* property Block.block_type (getter)
block_type(b) ==
    IF Has(b.attributes, "type")
    THEN Some(Get(b.attributes, "type").value)
    ELSE None

\* a setter that takes the empty string for no type
set_block_type_nonempty(b, t) ==
    IF t = StrV("")
    THEN b
    ELSE [b EXCEPT !.attributes = Put(b.attributes, "type", Attribute("type", t))]

\* property Block.block_type (setter)
set_block_type(b, t) ==
    [b EXCEPT !.attributes = Put(b.attributes, "type", Attribute("type", t))]

\* add_attribute that keeps the stored entity when the name is present
add_attribute_keep(b, name, c) ==
    IF Has(b.attributes, name)
    THEN IF c.force THEN Ok(b) ELSE Raise("ValueError", b)
    ELSE IF Len(c.args) = 1
    THEN Ok([b EXCEPT !.attributes = Put(b.attributes, name, Attribute(name, c.args[1].val))])
    ELSE Raise("ValueError", b)

add_attribute(b, name, c) ==
    IF ~c.force /\ Has(b.attributes, name)
    THEN Raise("ValueError", b)
    ELSE IF Len(c.args) = 1
    THEN IF c.args[1].vk = "Attribute"
         THEN Ok([b EXCEPT !.attributes =
                    Put(b.attributes, name, Attribute(c.args[1].name, c.args[1].val))])
         ELSE Ok([b EXCEPT !.attributes =
                    Put(b.attributes, name, Attribute(name, c.args[1].val))])
    ELSE Raise("ValueError", b)

\* add_dimension without the duplicate check
add_dimension_unchecked(b, name, c) ==
    IF Len(c.args) = 1
    THEN Ok([b EXCEPT !.dimensions = Put(b.dimensions, name, Dimension(name, c.args[1].val))])
    ELSE Raise("ValueError", b)

add_dimension(b, name, c) ==
    IF ~c.force /\ Has(b.dimensions, name)
    THEN Raise("ValueError", b)
    ELSE IF Len(c.args) = 1
    THEN IF c.args[1].vk = "Dimension"
         THEN Ok([b EXCEPT !.dimensions =
                    Put(b.dimensions, name, Dimension(c.args[1].name, c.args[1].val))])
         ELSE Ok([b EXCEPT !.dimensions =
                    Put(b.dimensions, name, Dimension(name, c.args[1].val))])
    ELSE Raise("ValueError", b)

\* add_variable that refuses a Variable naming a dimension the block lacks
add_variable_checked(b, name, c) ==
    IF ~c.force /\ Has(b.variables, name)
    THEN Raise("ValueError", b)
    ELSE IF Len(c.args) = 1
    THEN IF c.args[1].vk = "Variable"
         THEN IF \A k \in 1..Len(c.args[1].var.dimensions) :
                    Has(b.dimensions, c.args[1].var.dimensions[k])
              THEN Ok([b EXCEPT !.variables = Put(b.variables, name, c.args[1].var)])
              ELSE Raise("ValueError", b)
         ELSE Raise("AssertionError", b)
    ELSE IF c.vkw.given
    THEN Ok([b EXCEPT !.variables =
               Put(b.variables, name,
                   Variable(name, c.vkw.var_type, c.vkw.dimensions, c.vkw.data))])
    ELSE Raise("TypeError", b)

add_variable(b, name, c) ==
    IF ~c.force /\ Has(b.variables, name)
    THEN Raise("ValueError", b)
    ELSE IF Len(c.args) = 1
    THEN IF c.args[1].vk = "Variable"
         THEN Ok([b EXCEPT !.variables = Put(b.variables, name, c.args[1].var)])
         ELSE Raise("AssertionError", b)
    ELSE IF c.vkw.given
    THEN Ok([b EXCEPT !.variables =
               Put(b.variables, name,
                   Variable(name, c.vkw.var_type, c.vkw.dimensions, c.vkw.data))])
    ELSE Raise("TypeError", b)

RECURSIVE add(_, _, _, _)
RECURSIVE add_block(_, _, _)
RECURSIVE from_kwargs(_, _)
RECURSIVE from_kwargs_items(_, _, _)

add_block(b, name, c) ==
    IF ~c.force /\ Has(b.blocks, name)
    THEN Raise("ValueError", b)
    ELSE IF c.block.given
    THEN IF c.block.arg.vk = "Block"
         THEN Ok([b EXCEPT !.blocks = Put(b.blocks, name, c.block.arg.blk)])
         ELSE Raise("ValueError", b)
    ELSE IF Len(c.args) >= 1
    THEN IF Len(c.args) = 1 /\ c.args[1].vk = "Block"
         THEN Ok([b EXCEPT !.blocks = Put(b.blocks, name, c.args[1].blk)])
         ELSE Raise("ValueError", b)
    ELSE LET r == from_kwargs(EmptyBlock, Kwargs(c.block_type, c.fields))
         IN  IF r.err = "ok"
             THEN Ok([b EXCEPT !.blocks = Put(b.blocks, name, r.blk)])
             ELSE Raise(r.err, b)

\* add that refuses a name the block holds under any role
add_unique_name(b, component_name, name, c) ==
    IF component_name \notin DOMAIN components
    THEN Raise("KeyError", b)
    ELSE IF ~c.force /\ (Has(b.attributes, name) \/ Has(b.dimensions, name)
                            \/ Has(b.variables, name) \/ Has(b.blocks, name))
    THEN Raise("ValueError", b)
    ELSE LET component_nctype == components[component_name].nctype
         IN  CASE component_nctype = "Attribute" -> add_attribute(b, name, c)
               [] component_nctype = "Dimension" -> add_dimension(b, name, c)
               [] component_nctype = "Variable" -> add_variable(b, name, c)
               [] component_nctype = "Block" ->
                    add_block(b, name, [c EXCEPT !.block_type = TypeKw(component_name)])
               [] OTHER -> Raise("ValueError", b)

add(b, component_name, name, c) ==
    IF component_name \notin DOMAIN components
    THEN Raise("KeyError", b)
    ELSE LET component_nctype == components[component_name].nctype
         IN  CASE component_nctype = "Attribute" -> add_attribute(b, name, c)
               [] component_nctype = "Dimension" -> add_dimension(b, name, c)
               [] component_nctype = "Variable" -> add_variable(b, name, c)
               [] component_nctype = "Block" ->
                    add_block(b, name, [c EXCEPT !.block_type = TypeKw(component_name)])
               [] OTHER -> Raise("ValueError", b)

from_kwargs_items(b, fields, i) ==
    IF i > Len(fields)
    THEN Ok(b)
    ELSE LET nc_cmp == get_attr_field(block_type(b), fields[i].key)
         IN  IF nc_cmp.err # "ok"
             THEN Raise(nc_cmp.err, b)
             ELSE LET r == add(b, nc_cmp.smspp_object, fields[i].key,
                               Call(<<fields[i].arg>>, FALSE))
                  IN  IF r.err # "ok"
                      THEN r
                      ELSE from_kwargs_items(r.blk, fields, i + 1)

\* from_kwargs that leaves the type of a block that has one
from_kwargs_keep_type(b, kw) ==
    from_kwargs_items(
        IF kw.block_type.given /\ ~Has(b.attributes, "type")
        THEN set_block_type(b, kw.block_type.t) ELSE b,
        kw.fields, 1)

\* from_kwargs that undoes what it did when a keyword raises
from_kwargs_atomic(b, kw) ==
    IF from_kwargs_items(
            IF kw.block_type.given THEN set_block_type(b, kw.block_type.t) ELSE b,
            kw.fields, 1).err = "ok"
    THEN from_kwargs_items(
            IF kw.block_type.given THEN set_block_type(b, kw.block_type.t) ELSE b,
            kw.fields, 1)
    ELSE Raise(from_kwargs_items(
                    IF kw.block_type.given THEN set_block_type(b, kw.block_type.t) ELSE b,
                    kw.fields, 1).err, b)

from_kwargs(b, kw) ==
    from_kwargs_items(
        IF kw.block_type.given THEN set_block_type(b, kw.block_type.t) ELSE b,
        kw.fields, 1)

\* Block.static(component_name): the name of the mapping
static(component_name) ==
    IF component_name \in DOMAIN components
    THEN [err |-> "ok", list_name |-> components[component_name].list_name]
    ELSE [err |-> "KeyError", list_name |-> ""]

\* remove that ignores a name the mapping does not hold
remove_discard(b, component_name, name) ==
    LET st == static(component_name)
    IN  IF st.err # "ok"
        THEN Raise(st.err, b)
        ELSE IF ~Has(b[st.list_name], name)
        THEN Ok(b)
        ELSE Ok([b EXCEPT ![st.list_name] = Pop(b[st.list_name], name)])

remove(b, component_name, name) ==
    LET st == static(component_name)
    IN  IF st.err # "ok"
        THEN Raise(st.err, b)
        ELSE IF ~Has(b[st.list_name], name)
        THEN Raise("KeyError", b)
        ELSE Ok([b EXCEPT ![st.list_name] = Pop(b[st.list_name], name)])

\* ------------------------------------------------------------------------
\* SMSNetwork

\* the decimal numerals int() is given here, and the numbers they denote
Numerals == <<"0", "1", "2", "3">>

\* int(ft) of the file_type setter: an integer is kept, a string is parsed
int(v) ==
    IF v.kind = "int"
    THEN [err |-> "ok", i |-> v.i]
    ELSE IF \E n \in 1..Len(Numerals) : Numerals[n] = v.s
    THEN [err |-> "ok", i |-> (CHOOSE n \in 1..Len(Numerals) : Numerals[n] = v.s) - 1]
    ELSE [err |-> "ValueError", i |-> 0]

\* a setter that stores the default kind whatever it is given
set_file_type_default(b, ft) ==
    Ok([b EXCEPT !.attributes = Put(b.attributes, FILE_TYPE, Bare(IntV(eProbFile)))])

\* property SMSNetwork.file_type (setter)
set_file_type(b, ft) ==
    IF int(ft).err # "ok"
    THEN Raise(int(ft).err, b)
    ELSE Ok([b EXCEPT !.attributes = Put(b.attributes, FILE_TYPE, Bare(IntV(int(ft).i)))])

\* property SMSNetwork.file_type (getter): SMSFileType(self._attributes[...])
file_type(b) ==
    IF ~Has(b.attributes, FILE_TYPE)
    THEN [err |-> "KeyError", ft |-> 0]
    ELSE LET v == Get(b.attributes, FILE_TYPE).value
         IN  IF v.kind = "int" /\ v.i \in SMSFileType
             THEN [err |-> "ok", ft |-> v.i]
             ELSE [err |-> "ValueError", ft |-> 0]

\* SMSNetwork.__init__ without fp: Block.__init__ with the given mappings
\* (an empty or missing mapping becomes a new Dict), then the setter
SMSNetwork_init(ft, attributes, dimensions, variables, blks) ==
    set_file_type([attributes |-> attributes, dimensions |-> dimensions,
                   variables |-> variables, blocks |-> blks], ft)

\* ------------------------------------------------------------------------
\* The netCDF4 container: a tree of groups.  A group holds attributes
\* (name -> value), dimensions (name -> [size, unlimited]), variables
\* (name -> [dtype, dimensions, written, elems]) and child groups.
\* Variables of rank zero or one are modelled.

EmptyGroup == [attrs |-> Dict, dims |-> Dict, vars |-> Dict, groups |-> Dict]

\* an element of a variable that was never written reads back masked
masked == -1

RECURSIVE GroupAt(_, _)
GroupAt(ds, path) ==
    IF path = << >> THEN ds ELSE GroupAt(Get(ds.groups, Head(path)), Tail(path))

RECURSIVE SetGroupAt(_, _, _)
SetGroupAt(ds, path, grp) ==
    IF path = << >>
    THEN grp
    ELSE [ds EXCEPT !.groups =
            Put(ds.groups, Head(path),
                SetGroupAt(Get(ds.groups, Head(path)), Tail(path), grp))]

\* a dimension name is looked up in the group, then in its parent groups
RECURSIVE find_dim(_, _, _)
find_dim(ds, path, name) ==
    IF Has(GroupAt(ds, path).dims, name)
    THEN [found |-> TRUE, at |-> path]
    ELSE IF path = << >>
    THEN [found |-> FALSE, at |-> << >>]
    ELSE find_dim(ds, SubSeq(path, 1, Len(path) - 1), name)

\* numpy.dtype(datatype): the native element type a type tag denotes
NativeTypes == {"f8", "f4", "i8", "i4", "u4"}

numpy_dtype(tag) ==
    CASE tag \in {"float", "double", "f8"} -> "f8"
      [] tag \in {"int", "i8"} -> "i8"
      [] tag = "f4" -> "f4"
      [] tag = "i4" -> "i4"
      [] tag = "u4" -> "u4"
      [] OTHER -> "TypeError"

\* one call on the container made by _to_netcdf_helper
NcCall(op, grp, key) ==
    [op |-> op, grp |-> grp, key |-> key, value |-> IntV(0), var_type |-> "",
     dimensions |-> << >>, data |-> ScalarData(0)]

NcOk(ds) == [err |-> "ok", ds |-> ds]

NcRaise(e, ds) == [err |-> e, ds |-> ds]

\* grp.setncattr(key, value)
setncattr(ds, c) ==
    LET g == GroupAt(ds, c.grp)
    IN  NcOk(SetGroupAt(ds, c.grp, [g EXCEPT !.attrs = Put(g.attrs, c.key, c.value)]))

\* grp.createDimension(key, value): size 0 declares an unlimited dimension
createDimension(ds, c) ==
    LET g == GroupAt(ds, c.grp)
    IN  IF c.value.kind # "int" \/ c.value.i < 0
        THEN NcRaise("TypeError", ds)
        ELSE NcOk(SetGroupAt(ds, c.grp,
                [g EXCEPT !.dims = Put(g.dims, c.key,
                    [size |-> c.value.i, unlimited |-> (c.value.i = 0)])]))

\* grp.createVariable(key, var_type, dimensions)
createVariable(ds, c) ==
    LET g == GroupAt(ds, c.grp)
    IN  IF numpy_dtype(c.var_type) \notin NativeTypes
        THEN NcRaise("TypeError", ds)
        ELSE IF \E i \in 1..Len(c.dimensions) : ~find_dim(ds, c.grp, c.dimensions[i]).found
        THEN NcRaise("ValueError", ds)
        ELSE NcOk(SetGroupAt(ds, c.grp,
                [g EXCEPT !.vars = Put(g.vars, c.key,
                    [dtype |-> numpy_dtype(c.var_type), dimensions |-> c.dimensions,
                     written |-> FALSE, elems |-> << >>])]))

\* var[:] = data for a variable of rank zero or one
assign(ds, c) ==
    LET g == GroupAt(ds, c.grp)
        var == Get(g.vars, c.key)
        stored(xs) == SetGroupAt(ds, c.grp,
                        [g EXCEPT !.vars = Put(g.vars, c.key,
                            [var EXCEPT !.written = TRUE, !.elems = xs])])
    IN  IF Len(var.dimensions) = 0
        THEN IF Len(c.data.elems) = 1
             THEN NcOk(stored(c.data.elems))
             ELSE NcRaise("ValueError", ds)
        ELSE
        LET at == find_dim(ds, c.grp, var.dimensions[1]).at
            dg == GroupAt(ds, at)
            dim == Get(dg.dims, var.dimensions[1])
            n == Len(c.data.elems)
        IN  IF c.data.scalar
            THEN NcOk(stored([i \in 1..dim.size |-> c.data.elems[1]]))
            ELSE IF dim.unlimited
            THEN LET grown == SetGroupAt(ds, at,
                                [dg EXCEPT !.dims = Put(dg.dims, var.dimensions[1],
                                    [dim EXCEPT !.size = IF n > dim.size THEN n ELSE dim.size])])
                     g2 == GroupAt(grown, c.grp)
                 IN  NcOk(SetGroupAt(grown, c.grp,
                        [g2 EXCEPT !.vars = Put(g2.vars, c.key,
                            [var EXCEPT !.written = TRUE, !.elems = c.data.elems])]))
            ELSE IF n = dim.size
            THEN NcOk(stored(c.data.elems))
            ELSE NcRaise("IndexError", ds)

\* grp.createGroup(key)
createGroup(ds, c) ==
    LET g == GroupAt(ds, c.grp)
    IN  NcOk(SetGroupAt(ds, c.grp, [g EXCEPT !.groups = Put(g.groups, c.key, EmptyGroup)]))

nc_call(ds, c) ==
    CASE c.op = "setncattr" -> setncattr(ds, c)
      [] c.op = "createDimension" -> createDimension(ds, c)
      [] c.op = "createVariable" -> createVariable(ds, c)
      [] c.op = "assign" -> assign(ds, c)
      [] c.op = "createGroup" -> createGroup(ds, c)

\* the calls are made in order; the first one that raises ends the walk
RECURSIVE nc_run(_, _, _)
nc_run(ds, calls, i) ==
    IF i > Len(calls)
    THEN [err |-> "ok", ds |-> ds, done |-> Len(calls)]
    ELSE LET r == nc_call(ds, calls[i])
         IN  IF r.err # "ok"
             THEN [err |-> r.err, ds |-> r.ds, done |-> i - 1]
             ELSE nc_run(r.ds, calls, i + 1)

\* var[:] read back: elements not written read as masked
read_data(ds, path, var) ==
    IF Len(var.dimensions) = 0
    THEN ScalarData(IF var.written THEN var.elems[1] ELSE masked)
    ELSE LET at == find_dim(ds, path, var.dimensions[1]).at
             size == Get(GroupAt(ds, at).dims, var.dimensions[1]).size
         IN  ArrayData([i \in 1..size |->
                          IF var.written /\ i <= Len(var.elems) THEN var.elems[i] ELSE masked])

\* ------------------------------------------------------------------------
\* Block._to_netcdf_helper: the calls made on the container, in order

\* the attributes written last first
attribute_calls_reversed(b, grp) ==
    [i \in 1..Len(b.attributes) |->
        [NcCall("setncattr", grp, b.attributes[Len(b.attributes) + 1 - i].key)
            EXCEPT !.value = b.attributes[Len(b.attributes) + 1 - i].val.value]]

attribute_calls(b, grp) ==
    [i \in 1..Len(b.attributes) |->
        [NcCall("setncattr", grp, b.attributes[i].key)
            EXCEPT !.value = b.attributes[i].val.value]]

dimension_calls(b, grp) ==
    [i \in 1..Len(b.dimensions) |->
        [NcCall("createDimension", grp, b.dimensions[i].key)
            EXCEPT !.value = b.dimensions[i].val.value]]

\* variables created but their data never assigned
variable_calls_no_data(b, grp) ==
    [j \in 1..Len(b.variables) |->
        [NcCall("createVariable", grp, b.variables[j].key)
            EXCEPT !.var_type = b.variables[j].val.var_type,
                   !.dimensions = b.variables[j].val.dimensions]]

variable_calls(b, grp) ==
    [j \in 1..(2 * Len(b.variables)) |->
        LET e == b.variables[(j + 1) \div 2]
        IN  IF j % 2 = 1
            THEN [NcCall("createVariable", grp, e.key)
                    EXCEPT !.var_type = e.val.var_type, !.dimensions = e.val.dimensions]
            ELSE [NcCall("assign", grp, e.key) EXCEPT !.data = e.val.data]]

RECURSIVE to_netcdf_helper(_, _)
RECURSIVE subblock_calls(_, _, _)

subblock_calls(b, grp, i) ==
    IF i > Len(b.blocks)
    THEN << >>
    ELSE <<NcCall("createGroup", grp, b.blocks[i].key)>>
            \o to_netcdf_helper(b.blocks[i].val, Append(grp, b.blocks[i].key))
            \o subblock_calls(b, grp, i + 1)

\* a helper that creates the variables before it declares the dimensions
to_netcdf_helper_variables_first(b, grp) ==
    attribute_calls(b, grp) \o variable_calls(b, grp) \o dimension_calls(b, grp)
        \o subblock_calls(b, grp, 1)

to_netcdf_helper(b, grp) ==
    attribute_calls(b, grp) \o dimension_calls(b, grp) \o variable_calls(b, grp)
        \o subblock_calls(b, grp, 1)

\* a path of the file system: absent, or a container
NoFile == [exists |-> FALSE, ds |-> EmptyGroup]

File(ds) == [exists |-> TRUE, ds |-> ds]

\* to_netcdf without the existence check
to_netcdf_unguarded(fs, b, fp, force) ==
    LET calls == to_netcdf_helper(b, << >>)
        r == nc_run(EmptyGroup, calls, 1)
    IN  [err |-> r.err, fs |-> [fs EXCEPT ![fp] = File(r.ds)],
         calls |-> SubSeq(calls, 1, IF r.err = "ok" THEN r.done ELSE r.done + 1)]

\* Block.to_netcdf(fp, force): the new file system, the outcome and the calls
\* that were made, the one that raised included; opening with "w" truncates
\* the destination
to_netcdf(fs, b, fp, force) ==
    IF ~force /\ fs[fp].exists
    THEN [err |-> "FileExistsError", fs |-> fs, calls |-> << >>]
    ELSE LET calls == to_netcdf_helper(b, << >>)
             r == nc_run(EmptyGroup, calls, 1)
         IN  [err |-> r.err, fs |-> [fs EXCEPT ![fp] = File(r.ds)],
              calls |-> SubSeq(calls, 1, IF r.err = "ok" THEN r.done ELSE r.done + 1)]

\* ------------------------------------------------------------------------
\* Block._from_netcdf: the container walked back into a Block

RECURSIVE read_attributes(_, _, _)
read_attributes(b, grb, i) ==
    IF i > Len(grb.attrs)
    THEN b
    ELSE read_attributes(
            add_attribute(b, grb.attrs[i].key,
                          Call(<<ScalarArg(grb.attrs[i].val)>>, TRUE)).blk,
            grb, i + 1)

RECURSIVE read_dimensions(_, _, _)
read_dimensions(b, grb, i) ==
    IF i > Len(grb.dims)
    THEN b
    ELSE read_dimensions(
            add_dimension(b, grb.dims[i].key,
                          Call(<<ScalarArg(IntV(grb.dims[i].val.size))>>, FALSE)).blk,
            grb, i + 1)

RECURSIVE read_variables(_, _, _, _)
read_variables(b, ds, path, i) ==
    LET grb == GroupAt(ds, path)
    IN  IF i > Len(grb.vars)
        THEN b
        ELSE read_variables(
                add_variable(b, grb.vars[i].key,
                    [Call(<< >>, FALSE) EXCEPT !.vkw =
                        VarKw(grb.vars[i].val.dtype, Dims(grb.vars[i].val.dimensions),
                              read_data(ds, path, grb.vars[i].val))]).blk,
                ds, path, i + 1)

RECURSIVE Block_from_netcdf(_, _, _)
RECURSIVE read_groups(_, _, _, _)

read_groups(b, ds, path, i) ==
    LET grb == GroupAt(ds, path)
    IN  IF i > Len(grb.groups)
        THEN b
        ELSE read_groups(
                add_block(b, grb.groups[i].key,
                    [Call(<< >>, FALSE) EXCEPT !.block =
                        BlockKw(BlockArg(Block_from_netcdf(EmptyBlock, ds,
                                            Append(path, grb.groups[i].key))))]).blk,
                ds, path, i + 1)

\* new_block is cls(): Block() or SMSNetwork()
Block_from_netcdf(new_block, ds, path) ==
    read_groups(
        read_variables(
            read_dimensions(
                read_attributes(new_block, GroupAt(ds, path), 1),
                GroupAt(ds, path), 1),
            ds, path, 1),
        ds, path, 1)

\* a loader that builds the network with the default kind
SMSNetwork_from_netcdf_default(ds) ==
    LET blk == Block_from_netcdf(
                    SMSNetwork_init(IntV(eProbFile), Dict, Dict, Dict, Dict).blk, ds, << >>)
    IN  IF ~Has(ds.attrs, FILE_TYPE)
        THEN Raise("AttributeError", EmptyBlock)
        ELSE SMSNetwork_init(IntV(eProbFile), blk.attributes, blk.dimensions,
                             blk.variables, blk.blocks)

\* a loader that falls back to the default kind when the attribute is missing
SMSNetwork_from_netcdf_lenient(ds) ==
    LET blk == Block_from_netcdf(
                    SMSNetwork_init(IntV(eProbFile), Dict, Dict, Dict, Dict).blk, ds, << >>)
    IN  SMSNetwork_init(IF Has(ds.attrs, FILE_TYPE) THEN Get(ds.attrs, FILE_TYPE)
                                                    ELSE IntV(eProbFile),
                        blk.attributes, blk.dimensions, blk.variables, blk.blocks)

\* SMSNetwork._from_netcdf
SMSNetwork_from_netcdf(ds) ==
    LET blk == Block_from_netcdf(
                    SMSNetwork_init(IntV(eProbFile), Dict, Dict, Dict, Dict).blk, ds, << >>)
    IN  IF ~Has(ds.attrs, FILE_TYPE)
        THEN Raise("AttributeError", EmptyBlock)
        ELSE SMSNetwork_init(Get(ds.attrs, FILE_TYPE), blk.attributes, blk.dimensions,
                             blk.variables, blk.blocks)

\* Block.from_netcdf(filename) and SMSNetwork.from_netcdf(filename)
from_netcdf(cls, fs, filename) ==
    IF ~fs[filename].exists
    THEN Raise("FileNotFoundError", EmptyBlock)
    ELSE IF cls = "SMSNetwork"
    THEN SMSNetwork_from_netcdf(fs[filename].ds)
    ELSE Ok(Block_from_netcdf(EmptyBlock, fs[filename].ds, << >>))

\* a block that closes the handle by a call at its end, which a raise skips
Dataset_close(hs, fp, outcome) ==
    IF outcome = "ok" THEN hs \ {fp} ELSE hs

\* with nc.Dataset(fp, mode) as ds: leaving the block closes the handle,
\* whether the block returned (outcome "ok") or raised
Dataset_exit(hs, fp, outcome) == hs \ {fp}

\* the handles open after to_netcdf(fp, force): the existence check raises
\* before the file is opened
to_netcdf_handles(hs, fs, fp, force, outcome) ==
    IF ~force /\ fs[fp].exists
    THEN hs
    ELSE Dataset_exit(hs \cup {fp}, fp, outcome)

\* the handles open after from_netcdf(filename): a file that does not exist
\* is not opened
from_netcdf_handles(hs, fs, filename, outcome) ==
    IF ~fs[filename].exists
    THEN hs
    ELSE Dataset_exit(hs \cup {filename}, filename, outcome)

\* SMSNetwork(fp=fp, file_type=ft)
SMSNetwork(fs, fp, ft) ==
    IF fp # ""
    THEN from_netcdf("SMSNetwork", fs, fp)
    ELSE SMSNetwork_init(ft, Dict, Dict, Dict, Dict)

\* ------------------------------------------------------------------------
\* Addressing a block of the tree by the names leading to it

RECURSIVE NodeAt(_, _)
NodeAt(b, path) ==
    IF path = << >> THEN b ELSE NodeAt(Get(b.blocks, Head(path)), Tail(path))

RECURSIVE SetAt(_, _, _)
SetAt(b, path, nb) ==
    IF path = << >>
    THEN nb
    ELSE [b EXCEPT !.blocks =
            Put(b.blocks, Head(path), SetAt(Get(b.blocks, Head(path)), Tail(path), nb))]

\* an increment that reaches a copy of the entry only
increment_dimension_copy(b, name, d) ==
    IF ~Has(b.dimensions, name) THEN Raise("KeyError", b) ELSE Ok(b)

\* dimensions[name].value += d, done by the caller on the mapping
increment_dimension(b, name, d) ==
    IF ~Has(b.dimensions, name)
    THEN Raise("KeyError", b)
    ELSE LET e == Get(b.dimensions, name)
         IN  IF ~e.wrapped \/ e.value.kind # "int"
             THEN Raise("TypeError", b)
             ELSE Ok([b EXCEPT !.dimensions =
                        Put(b.dimensions, name, [e EXCEPT !.value = IntV(e.value.i + d)])])

\* ------------------------------------------------------------------------
\* Inputs of the exploration

Paths == {"a.nc", "b.nc"}

MinPower == Variable("MinPower", "float", Dims(<< >>), ScalarData(5))

ActivePowerDemand ==
    Variable("ActivePowerDemand", "float", Dims(<<"TimeHorizon">>), ArrayData(<<1, 2, 3>>))

ActivePowerFill ==
    Variable("ActivePowerDemand", "double", Dims(<<"TimeHorizon">>), ScalarData(5))

GeneratorNode ==
    Variable("GeneratorNode", "int", Dims(<<"NumberUnits">>), ArrayData(<<1, 2>>))

VariableInputs == {MinPower, ActivePowerDemand, ActivePowerFill, GeneratorNode}

AttributeInputs ==
    {<<"id", IntV(7)>>, <<"id", StrV("x")>>, <<FILE_TYPE, IntV(7)>>, <<FILE_TYPE, StrV("x")>>,
     <<FILE_TYPE, StrV("3")>>}

DimensionInputs ==
    {<<"TimeHorizon", 2>>, <<"TimeHorizon", 3>>, <<"NumberUnits", 0>>, <<"NumberUnits", 2>>}

\* keyword payloads of a UCBlock: one with its own dimension, one whose
\* variable names a dimension of the parent
UCBlockKwargs ==
    {<<Field("id", ScalarArg(StrV("0"))), Field("TimeHorizon", ScalarArg(IntV(3))),
       Field("ActivePowerDemand", VariableArg(ActivePowerDemand))>>,
     <<Field("ActivePowerDemand", VariableArg(ActivePowerDemand))>>}

ThermalUnitBlock ==
    from_kwargs(EmptyBlock,
        Kwargs(TypeKw("ThermalUnitBlock"), <<Field("MinPower", VariableArg(MinPower))>>)).blk

BlockNames == {"Block_0", "UnitBlock_0"}

RemoveInputs ==
    {<<"Attribute", FILE_TYPE>>, <<"Attribute", "id">>, <<"Dimension", "TimeHorizon">>,
     <<"Variable", "MinPower">>, <<"Block", "Block_0">>}

\* a file as the solver writes it: a solution document
SolutionFile ==
    [attrs |-> <<[key |-> FILE_TYPE, val |-> IntV(eSolutionFile)]>>,
     dims |-> Dict,
     vars |-> Dict,
     groups |-> <<[key |-> "Solution_0", val |->
        [attrs |-> <<[key |-> "type", val |-> StrV("UCBlockSolution")]>>,
         dims |-> <<[key |-> "TimeHorizon", val |-> [size |-> 2, unlimited |-> FALSE]]>>,
         vars |-> <<[key |-> "ActivePower", val |->
                        [dtype |-> "f8", dimensions |-> <<"TimeHorizon">>,
                         written |-> TRUE, elems |-> <<5, 7>>]]>>,
         groups |-> Dict]]>>]

\* a file as Block.to_netcdf writes it for a block that is not a network
BlockFile ==
    [attrs |-> <<[key |-> "type", val |-> StrV("UCBlock")]>>,
     dims |-> <<[key |-> "TimeHorizon", val |-> [size |-> 2, unlimited |-> FALSE]]>>,
     vars |-> Dict,
     groups |-> Dict]

\* the same block with a file-kind attribute that is not a number
TaggedBlockFile ==
    [BlockFile EXCEPT !.attrs = Append(BlockFile.attrs, [key |-> FILE_TYPE, val |-> StrV("x")])]

Documents == {SolutionFile, BlockFile, TaggedBlockFile}

\* ------------------------------------------------------------------------
\* Solver logs (smspp_tools.py)

\* A log is a string; it is kept as the sequence of the pieces that were
\* written to it. A piece is a label followed by a text, a carriage return
\* when cr, and a newline when eol: "Status = " "kOpt" "\r" "\n".
Chunk(label, text, cr, eol) == [label |-> label, text |-> text, cr |-> cr, eol |-> eol]

\* python floats: a finite number, an infinity, or not-a-number
Real(x) == [kind |-> "real", x |-> x]

inf == [kind |-> "inf", x |-> 0]

nan == [kind |-> "nan", x |-> 0]

\* the value None of a result field, and a status string
NoneValue == [kind |-> "None", x |-> 0]

Status(s) == [kind |-> "str", s |-> s]

NoStatus == [kind |-> "None", s |-> ""]

\* float(s): the literals that python converts; any other text raises
\* ValueError
float(s) ==
    CASE s = "100.0" -> [err |-> "ok", v |-> Real(100)]
      [] s = "90.0" -> [err |-> "ok", v |-> Real(90)]
      [] s = "42.0" -> [err |-> "ok", v |-> Real(42)]
      [] s = "inf" -> [err |-> "ok", v |-> inf]
      [] s = "nan" -> [err |-> "ok", v |-> nan]
      [] OTHER -> [err |-> "ValueError", v |-> nan]

\* np.isfinite
isfinite(v) == v.kind = "real"

\* the characters of log from piece i on, up to the first newline, as
\* tokens; "(.*)" does not match a newline
RECURSIVE rest_of_line(_, _)
rest_of_line(log, i) ==
    IF i > Len(log)
    THEN << >>
    ELSE <<log[i].label, log[i].text>> \o (IF log[i].cr THEN <<"\r">> ELSE << >>)
            \o (IF log[i].eol THEN << >> ELSE rest_of_line(log, i + 1))

\* s.replace("\r", "") on tokens
replace_cr(tokens) == SelectSeq(tokens, LAMBDA t : t # "\r")

\* "".join(tokens)
RECURSIVE join(_)
join(tokens) == IF tokens = << >> THEN "" ELSE Head(tokens) \o join(Tail(tokens))

\* re.search(label + "(.*)\n", log): the leftmost place where the label
\* stands with a newline somewhere after it; group(1) is what stands between
\* the label and that newline
search(pattern, log) ==
    LET at == {i \in 1..Len(log) :
                    /\ log[i].label = pattern
                    /\ \E j \in i..Len(log) : log[j].eol}
    IN  IF at = {}
        THEN [found |-> FALSE, group |-> << >>]
        ELSE LET i == CHOOSE k \in at : \A l \in at : k <= l
             IN  [found |-> TRUE, group |-> Tail(rest_of_line(log, i))]

\* what a parser returns, or the exception it raises
Result(status, objective_value, lower_bound, upper_bound) ==
    [err |-> "ok", status |-> status, objective_value |-> objective_value,
     lower_bound |-> lower_bound, upper_bound |-> upper_bound]

Failed == Result(Status("Failed"), nan, nan, nan)

\* a parser that raises returns nothing
ParseError(e) ==
    [err |-> e, status |-> NoStatus, objective_value |-> NoneValue,
     lower_bound |-> NoneValue, upper_bound |-> NoneValue]

\* the parsers that the solver classes configure
NoParser == [kind |-> "None", primary |-> "", upper |-> "", lower |-> "", status |-> ""]

StatusBoundsSolverLogParser(status_pattern, upper_bound_pattern, lower_bound_pattern) ==
    [kind |-> "StatusBounds", primary |-> status_pattern, upper |-> upper_bound_pattern,
     lower |-> lower_bound_pattern, status |-> status_pattern]

ObjectiveValueSolverLogParser(objective_pattern) ==
    [kind |-> "ObjectiveValue", primary |-> objective_pattern, upper |-> "", lower |-> "",
     status |-> "Solver status: "]

\* StatusBoundsSolverLogParser.parse(log)
StatusBounds_parse(p, log) ==
    LET res == search(p.status, log)
        ub == search(p.upper, log)
        lb == search(p.lower, log)
        u == float(join(replace_cr(ub.group)))
        l == float(join(replace_cr(lb.group)))
    IN  IF ~res.found
        THEN Failed
        ELSE IF ub.found /\ u.err # "ok"
        THEN ParseError(u.err)
        ELSE IF lb.found /\ l.err # "ok"
        THEN ParseError(l.err)
        ELSE Result(Status(join(replace_cr(res.group))),
                    IF ub.found THEN u.v ELSE nan,
                    IF lb.found THEN l.v ELSE nan,
                    IF ub.found THEN u.v ELSE nan)

\* ObjectiveValueSolverLogParser.parse(log)
ObjectiveValue_parse(p, log) ==
    LET res == search(p.primary, log)
        objective_value == float(join(replace_cr(res.group)))
        st == search(p.status, log)
        smspp_status == IF st.found THEN join(replace_cr(st.group)) ELSE "unknown"
    IN  IF ~res.found
        THEN Failed
        ELSE IF objective_value.err # "ok"
        THEN ParseError(objective_value.err)
        ELSE Result(Status((IF isfinite(objective_value.v) THEN "Success (" ELSE "Failed (")
                                \o smspp_status \o ")"),
                    objective_value.v, nan, nan)

\* parser.parse(log); the base class raises
parse(p, log) ==
    CASE p.kind = "StatusBounds" -> StatusBounds_parse(p, log)
      [] p.kind = "ObjectiveValue" -> ObjectiveValue_parse(p, log)
      [] OTHER -> ParseError("NotImplementedError")

\* the solver classes and the parser each sets as _log_parser
SolverClasses ==
    {"SMSPPSolverTool", "UCBlockSolver", "InvestmentBlockTestSolver",
     "InvestmentBlockSolver", "SDDPSolver", "TSSBlockSolver"}

log_parser(cls) ==
    CASE cls \in {"UCBlockSolver", "TSSBlockSolver"} ->
            StatusBoundsSolverLogParser("Status = ", "Upper bound = ", "Lower bound = ")
      [] cls = "InvestmentBlockTestSolver" -> ObjectiveValueSolverLogParser("Fi* = ")
      [] cls \in {"InvestmentBlockSolver", "SDDPSolver"} ->
            ObjectiveValueSolverLogParser("Solution value: ")
      [] OTHER -> NoParser

\* ------------------------------------------------------------------------
\* SMSPPSolverTool

\* an optional path: None, or a path
NoPath == [given |-> FALSE, fp |-> ""]

Path(fp) == [given |-> TRUE, fp |-> fp]

\* the attribute _log: None, or the string captured so far
NoLog == [given |-> FALSE, text |-> << >>]

Log(text) == [given |-> TRUE, text |-> text]

\* the attribute _solution: None, or the network loaded
NoSolution == [given |-> FALSE, blk |-> EmptyBlock]

\* SMSPPSolverTool.__init__ as the class cls calls it
SMSPPSolverTool_init(cls, fp_network, configfile, fp_solution, fp_log) ==
    [cls |-> cls, fp_network |-> fp_network, configfile |-> configfile,
     fp_solution |-> fp_solution, fp_log |-> fp_log,
     status |-> NoStatus, log |-> NoLog, objective_value |-> NoneValue,
     lower_bound |-> NoneValue, upper_bound |-> NoneValue, solution |-> NoSolution]

\* no solver object has been made
NoSolver == SMSPPSolverTool_init("", "", "", NoPath, NoPath)

\* a call on a solver object that returns or raises, leaving it as s
Returned(e, s) == [err |-> e, solver |-> s]

\* parse_solver_log that marks the result as failed before it raises
parse_solver_log_reset(s) ==
    LET r == parse(log_parser(s.cls), s.log.text)
        failed == [s EXCEPT !.status = Failed.status,
                            !.objective_value = nan, !.lower_bound = nan,
                            !.upper_bound = nan]
    IN  IF ~s.log.given
        THEN Returned("ValueError", failed)
        ELSE IF log_parser(s.cls).kind = "None"
        THEN Returned("NotImplementedError", failed)
        ELSE IF r.err # "ok"
        THEN Returned(r.err, failed)
        ELSE Returned("ok", [s EXCEPT !.status = r.status,
                                      !.objective_value = r.objective_value,
                                      !.lower_bound = r.lower_bound,
                                      !.upper_bound = r.upper_bound])

\* parse_solver_log that takes a log without its primary line for an
\* unfinished run and leaves the fields alone
parse_solver_log_keep(s) ==
    LET r == parse(log_parser(s.cls), s.log.text)
    IN  IF ~s.log.given
        THEN Returned("ValueError", s)
        ELSE IF log_parser(s.cls).kind = "None"
        THEN Returned("NotImplementedError", s)
        ELSE IF r.err # "ok"
        THEN Returned(r.err, s)
        ELSE IF ~search(log_parser(s.cls).primary, s.log.text).found
        THEN Returned("ok", s)
        ELSE Returned("ok", [s EXCEPT !.status = r.status,
                                      !.objective_value = r.objective_value,
                                      !.lower_bound = r.lower_bound,
                                      !.upper_bound = r.upper_bound])

\* SMSPPSolverTool.parse_solver_log()
parse_solver_log(s) ==
    LET r == parse(log_parser(s.cls), s.log.text)
    IN  IF ~s.log.given
        THEN Returned("ValueError", s)
        ELSE IF log_parser(s.cls).kind = "None"
        THEN Returned("NotImplementedError", s)
        ELSE IF r.err # "ok"
        THEN Returned(r.err, s)
        ELSE Returned("ok", [s EXCEPT !.status = r.status,
                                      !.objective_value = r.objective_value,
                                      !.lower_bound = r.lower_bound,
                                      !.upper_bound = r.upper_bound])

\* the configuration files that exist
ConfigFiles == {"uc_solverconfig.txt"}

\* the text files of the disk
NoText == [exists |-> FALSE, text |-> << >>]

Text(text) == [exists |-> TRUE, text |-> text]

\* what optimize appends to the captured output: three lines, with no
\* newline before the first
footer ==
    <<Chunk("Peak CPU Usage: ", "0.00 %", FALSE, TRUE),
      Chunk("Peak Memory Usage: ", "0.00 MB", FALSE, TRUE),
      Chunk("Total Time: ", "0.00 seconds", FALSE, TRUE)>>

\* calculate_executable_call(): the base class raises; the solver classes
\* name the network and, when fp_solution is set, the file to write the
\* solution to
calculate_executable_call(s) ==
    IF s.cls = "SMSPPSolverTool"
    THEN [err |-> "NotImplementedError", fp_network |-> "", fp_solution |-> NoPath]
    ELSE [err |-> "ok", fp_network |-> s.fp_network, fp_solution |-> s.fp_solution]

\* the solver process run on a command: it may write a solution document to
\* the file that the command names
Popen(command, fs, wrote) ==
    IF wrote /\ command.fp_solution.given
    THEN [fs EXCEPT ![command.fp_solution.fp] = File(SolutionFile)]
    ELSE fs

\* what a call of optimize leaves: the exception or "ok", the solver object,
\* the disk, and the steps taken in order
Outcome(e, s, fs, tx, tr) == [err |-> e, solver |-> s, fs |-> fs, texts |-> tx, trace |-> tr]

\* self._solution = SMSNetwork(self.fp_solution) returned or raised r
solution_loaded(s, fs, tx, tr, r) ==
    IF r.err = "ok"
    THEN Outcome("ok", [s EXCEPT !.solution = [given |-> TRUE, blk |-> r.blk]], fs, tx, tr)
    ELSE Outcome(r.err, s, fs, tx, tr)

\* optimize from the solution on
load_solution(s, fs, tx, tr) ==
    IF s.fp_solution.given
    THEN IF fs[s.fp_solution.fp].exists
         THEN CHOOSE o \in {solution_loaded(s, fs, tx, Append(tr, "load_solution"), r) :
                             r \in {SMSNetwork(fs, s.fp_solution.fp, IntV(eProbFile))}} :
                    TRUE
         ELSE Outcome("FileNotFoundError", s, fs, tx, tr)
    ELSE Outcome("ok", [s EXCEPT !.solution = NoSolution], fs, tx, tr)

\* optimize from the log file on
write_log(s, fs, tx, tr) ==
    load_solution(s, fs,
                  IF s.fp_log.given
                  THEN [tx EXCEPT ![s.fp_log.fp] = Text(s.log.text)] ELSE tx,
                  IF s.fp_log.given THEN Append(tr, "write_log") ELSE tr)

\* optimize after parse_solver_log returned or raised p
log_parsed(p, fs, tx, tr, returncode) ==
    IF p.err # "ok"
    THEN Outcome(p.err, p.solver, fs, tx, tr)
    ELSE IF returncode # 0
    THEN Outcome("ValueError", p.solver, fs, tx, tr)
    ELSE write_log(p.solver, fs, tx, tr)

\* optimize after the process has ended and its output is in s.log
process_ended(s, fs, tx, tr, returncode) ==
    CHOOSE o \in {log_parsed(p, fs, tx, Append(tr, "parse_solver_log"), returncode) :
                    p \in {parse_solver_log(s)}} : TRUE

\* SMSPPSolverTool.optimize(): output is everything the process wrote to its
\* two pipes and returncode its exit status
optimize(s, fs, tx, tr, output, returncode, wrote) ==
    IF s.configfile \notin ConfigFiles
    THEN Outcome("FileNotFoundError", s, fs, tx, Append(tr, "optimize"))
    ELSE IF ~fs[s.fp_network].exists
    THEN Outcome("FileNotFoundError", s, fs, tx, Append(tr, "optimize"))
    ELSE IF calculate_executable_call(s).err # "ok"
    THEN Outcome(calculate_executable_call(s).err, s, fs, tx, Append(tr, "optimize"))
    ELSE CHOOSE o \in {process_ended(run, disk, tx, tr \o <<"optimize", "Popen">>,
                                      returncode) :
                            disk \in {Popen(calculate_executable_call(s), fs, wrote)},
                            run \in {[s EXCEPT !.log = Log(output \o footer)]}} :
            TRUE

\* ------------------------------------------------------------------------
\* SMSNetwork.optimize

default_solver_map ==
    [UCBlock |-> "UCBlockSolver",
     InvestmentBlock |-> "InvestmentBlockTestSolver",
     SDDPBlock |-> "InvestmentBlockSolver"]

solver_factory == {"UCBlockSolver", "InvestmentBlockTestSolver", "InvestmentBlockSolver"}

\* the solver named by smspp_solver: "auto" takes it from the type of the
\* inner block
select_solver(b, smspp_solver, inner_block_name) ==
    IF smspp_solver = "auto"
    THEN IF ~Has(b.blocks, inner_block_name)
         THEN [err |-> "KeyError", name |-> ""]
         ELSE LET t == block_type(Get(b.blocks, inner_block_name))
              IN  IF t.given /\ t.v.kind = "str" /\ t.v.s \in DOMAIN default_solver_map
                  THEN [err |-> "ok", name |-> default_solver_map[t.v.s]]
                  ELSE [err |-> "ValueError", name |-> ""]
    ELSE [err |-> "ok", name |-> smspp_solver]

\* the last two statements in the other order
optimize_then_write(b, s, fs, tx, fp_temp, output, returncode, wrote) ==
    LET o == optimize(s, fs, tx, << >>, output, returncode, wrote)
        w == to_netcdf(o.fs, b, fp_temp, TRUE)
    IN  IF o.err # "ok"
        THEN o
        ELSE Outcome(w.err, o.solver, w.fs, o.texts, Append(o.trace, "to_netcdf"))

\* self.to_netcdf(fp_temp, force=True) returned or raised w
network_written(s, tx, w, output, returncode, wrote) ==
    IF w.err # "ok"
    THEN Outcome(w.err, s, w.fs, tx, <<"to_netcdf">>)
    ELSE optimize(s, w.fs, tx, <<"to_netcdf">>, output, returncode, wrote)

\* self.to_netcdf(fp_temp, force=True); return smspp_solver.optimize(): w is
\* what to_netcdf left
write_then_optimize(b, s, fs, tx, fp_temp, output, returncode, wrote) ==
    CHOOSE o \in {network_written(s, tx, w, output, returncode, wrote) :
                    w \in {to_netcdf(fs, b, fp_temp, TRUE)}} : TRUE

\* SMSNetwork.optimize: smspp_solver is the solver object s0 when is_tool is
\* set, and a string otherwise
SMSNetwork_optimize(b, s0, fs, tx, configfile, fp_temp, fp_log, fp_solution, is_tool, smspp_solver, inner_block_name, output, returncode, wrote) ==
    LET sel == select_solver(b, smspp_solver, inner_block_name)
    IN  IF ~is_tool /\ sel.err # "ok"
        THEN Outcome(sel.err, s0, fs, tx, << >>)
        ELSE IF ~is_tool /\ sel.name \notin solver_factory
        THEN Outcome("ValueError", s0, fs, tx, << >>)
        ELSE IF ~is_tool /\ configfile \notin ConfigFiles
        THEN Outcome("FileNotFoundError", s0, fs, tx, << >>)
        ELSE write_then_optimize(b,
                IF is_tool
                THEN s0
                ELSE SMSPPSolverTool_init(sel.name, fp_temp, configfile, fp_solution,
                                          fp_log),
                fs, tx, fp_temp, output, returncode, wrote)

\* ------------------------------------------------------------------------
\* The process that optimize starts and the loop that follows it

\* no process has been started: whether it runs, its return code, the bytes
\* in its two pipes, how many characters and chunks it has written, and of
\* the loop in optimize its position (pc), the flag loop, the reads made and
\* the message built by the call of _get_msg_from_pipe in progress, msg_out,
\* self._log and log_error
NoProcess ==
    [alive |-> FALSE, returncode |-> 0, stdout |-> << >>, stderr |-> << >>,
     nout |-> 0, nerr |-> 0, nchunks |-> 0, pc |-> "idle", loop |-> FALSE,
     i |-> 0, msg |-> << >>, msg_out |-> << >>, log |-> << >>, log_error |-> << >>]

\* no parser has been called
NoResult == ParseError("")

\* ------------------------------------------------------------------------
\* State

VARIABLES
    net,      \* the SMSNetwork under construction
    files,    \* the file system: path -> file
    err,      \* outcome of the last call: "ok" or the exception raised
    last,     \* the last call and its arguments
    wlog,     \* the container calls made by the last to_netcdf
    nops,     \* number of calls made
    handles,  \* the files opened and not yet closed
    lookup,   \* a call of get_attr_field and its result
    heap,     \* the Block objects, by identity
    ret,      \* what the last call on a Block object returned
    solver,   \* the solver object
    texts,    \* the text files of the disk: path -> file
    trace,    \* the steps of the last call of optimize, in order
    parsed,   \* what the last call of a parser returned
    proc      \* the solver process, its pipes, and the loop reading them

vars == <<net, files, err, last, wlog, nops, handles, lookup, heap, ret,
          solver, texts, trace, parsed, proc>>

\* the state of the solver tools
tools == <<solver, texts, trace, parsed, proc>>

LogPaths == {"log.txt"}

\* no solver tool has been used
NoTools ==
    /\ solver = NoSolver
    /\ texts = [fp \in LogPaths |-> NoText]
    /\ trace = << >>
    /\ parsed = NoResult
    /\ proc = NoProcess

\* no call of get_attr_field is in progress
NoLookup ==
    [state |-> "idle", block_type |-> None, attr_name |-> "",
     result |-> [err |-> "", msg |-> "", attr |-> "", smspp_object |-> ""]]

\* a call that returned nothing, or has not returned
NoReturn == [what |-> "None", ref |-> 0, entity |-> IntV(0)]

\* the state that the calls on one network leave alone
objects == <<lookup, heap, ret, solver, texts, trace, parsed, proc>>

LastCall(op) ==
    [op |-> op, target |-> << >>, component |-> "", name |-> "",
     call |-> Call(<< >>, FALSE), value |-> IntV(0), fp |-> "", force |-> FALSE]

\* SMSNetwork(): file_type defaults to SMSFileType.eProbFile; one document is
\* on the disk
Init ==
    /\ net = SMSNetwork_init(IntV(eProbFile), Dict, Dict, Dict, Dict).blk
    /\ \E doc \in Documents :
            files = [fp \in Paths |-> IF fp = "a.nc" THEN File(doc) ELSE NoFile]
    /\ err = "ok"
    /\ last = LastCall("SMSNetwork")
    /\ wlog = << >>
    /\ nops = 0
    /\ handles = {}
    /\ lookup = NoLookup
    /\ heap = << >>
    /\ ret = NoReturn
    /\ NoTools

\* the blocks of the tree, by path
RECURSIVE NodePaths(_)
NodePaths(b) ==
    {<< >>} \cup UNION {{<<b.blocks[i].key>> \o q : q \in NodePaths(b.blocks[i].val)} :
                            i \in 1..Len(b.blocks)}

\* a call on the block at path p that returns or raises
Edit(p, r, l) ==
    /\ nops < MaxOps
    /\ net' = SetAt(net, p, r.blk)
    /\ err' = r.err
    /\ last' = [l EXCEPT !.target = p]
    /\ wlog' = << >>
    /\ nops' = nops + 1
    /\ UNCHANGED <<files, handles>>
    /\ UNCHANGED objects

\* net = SMSNetwork(file_type=ft)
Construct(ft) ==
    /\ nops < MaxOps
    /\ net' = SMSNetwork_init(IntV(ft), Dict, Dict, Dict, Dict).blk
    /\ err' = "ok"
    /\ last' = [LastCall("SMSNetwork") EXCEPT !.value = IntV(ft)]
    /\ wlog' = << >>
    /\ nops' = nops + 1
    /\ UNCHANGED <<files, handles>>
    /\ UNCHANGED objects

\* block.add_attribute(name, value, force=force)
AddAttribute(p, name, value, force) ==
    LET c == Call(<<ScalarArg(value)>>, force)
    IN  Edit(p, add_attribute(NodeAt(net, p), name, c),
             [LastCall("add_attribute") EXCEPT !.name = name, !.call = c, !.force = force])

\* block.add_dimension(name, value, force=force)
AddDimension(p, name, value, force) ==
    LET c == Call(<<ScalarArg(IntV(value))>>, force)
    IN  Edit(p, add_dimension(NodeAt(net, p), name, c),
             [LastCall("add_dimension") EXCEPT !.name = name, !.call = c, !.force = force])

\* block.add_variable(name, v, force=force) with v a Variable
AddVariable(p, name, v, force) ==
    LET c == Call(<<VariableArg(v)>>, force)
    IN  Edit(p, add_variable(NodeAt(net, p), name, c),
             [LastCall("add_variable") EXCEPT !.name = name, !.call = c, !.force = force])

\* block.add_block(name, block=blk, force=force)
AddBlock(p, name, blk, force) ==
    LET c == [Call(<< >>, force) EXCEPT !.block = BlockKw(BlockArg(blk))]
    IN  Edit(p, add_block(NodeAt(net, p), name, c),
             [LastCall("add_block") EXCEPT !.name = name, !.call = c, !.force = force])

\* block.add(component_name, name, force=force, **kw)
Add(p, component_name, name, kw, force) ==
    LET c == [Call(<< >>, force) EXCEPT !.fields = kw]
    IN  Edit(p, add(NodeAt(net, p), component_name, name, c),
             [LastCall("add") EXCEPT !.component = component_name, !.name = name,
                                     !.call = c, !.force = force])

\* block.from_kwargs(**fields)
FromKwargs(p, fields) ==
    LET kw == Kwargs(NoType, fields)
    IN  Edit(p, from_kwargs(NodeAt(net, p), kw),
             [LastCall("from_kwargs") EXCEPT
                !.call = [Call(<< >>, FALSE) EXCEPT !.block_type = kw.block_type,
                                                    !.fields = kw.fields]])

Remove(p, component_name, name) ==
    Edit(p, remove(NodeAt(net, p), component_name, name),
         [LastCall("remove") EXCEPT !.component = component_name, !.name = name])

SetBlockType(p, t) ==
    Edit(p, Ok(set_block_type(NodeAt(net, p), StrV(t))),
         [LastCall("block_type") EXCEPT !.value = StrV(t)])

SetFileType(ft) ==
    Edit(<< >>, set_file_type(net, IntV(ft)),
         [LastCall("file_type") EXCEPT !.value = IntV(ft)])

IncrementDimension(p, name) ==
    Edit(p, increment_dimension(NodeAt(net, p), name, 1),
         [LastCall("increment_dimension") EXCEPT !.name = name])

\* net.to_netcdf(fp, force)
ToNetcdf(fp, force) ==
    LET r == to_netcdf(files, net, fp, force)
    IN  /\ nops < MaxOps
        /\ files' = r.fs
        /\ err' = r.err
        /\ wlog' = r.calls
        /\ last' = [LastCall("to_netcdf") EXCEPT !.fp = fp, !.force = force]
        /\ nops' = nops + 1
        /\ handles' = to_netcdf_handles(handles, files, fp, force, r.err)
        /\ UNCHANGED net
        /\ UNCHANGED objects

\* net = SMSNetwork(fp, file_type=ft): when the constructor raises, net is
\* not rebound
Load(fp, ft) ==
    LET r == SMSNetwork(files, fp, IntV(ft))
    IN  /\ nops < MaxOps
        /\ net' = IF r.err = "ok" THEN r.blk ELSE net
        /\ err' = r.err
        /\ last' = [LastCall("SMSNetwork") EXCEPT !.fp = fp, !.value = IntV(ft)]
        /\ wlog' = << >>
        /\ nops' = nops + 1
        /\ handles' = from_netcdf_handles(handles, files, fp, r.err)
        /\ UNCHANGED files
        /\ UNCHANGED objects

Next ==
    \/ \E ft \in SMSFileType : Construct(ft)
    \/ \E a \in AttributeInputs, force \in BOOLEAN :
            AddAttribute(<< >>, a[1], a[2], force)
    \/ \E d \in DimensionInputs, force \in BOOLEAN :
            AddDimension(<< >>, d[1], d[2], force)
    \/ \E v \in VariableInputs, force \in BOOLEAN :
            AddVariable(<< >>, v.name, v, force)
    \/ \E name \in BlockNames, force \in BOOLEAN :
            AddBlock(<< >>, name, ThermalUnitBlock, force)
    \/ \E kw \in UCBlockKwargs, force \in BOOLEAN :
            Add(<< >>, "UCBlock", "Block_0", kw, force)
    \/ \E p \in NodePaths(net), kw \in UCBlockKwargs :
            FromKwargs(p, kw)
    \/ \E r \in RemoveInputs : Remove(<< >>, r[1], r[2])
    \/ \E p \in NodePaths(net) : SetBlockType(p, "UCBlock")
    \/ \E ft \in SMSFileType : SetFileType(ft)
    \/ \E p \in NodePaths(net), name \in {"TimeHorizon", "NumberUnits"} :
            IncrementDimension(p, name)
    \/ \E fp \in Paths, force \in BOOLEAN : ToNetcdf(fp, force)
    \/ \E fp \in Paths, ft \in SMSFileType : Load(fp, ft)

Spec == Init /\ [][Next]_vars

\* ------------------------------------------------------------------------
\* Properties

\* the mapping a call of add_attribute / add_dimension / add_variable /
\* add_block works on
AddOps == {"add_attribute", "add_dimension", "add_variable", "add_block"}

ListOf(op) ==
    CASE op = "add_attribute" -> "attributes"
      [] op = "add_dimension" -> "dimensions"
      [] op = "add_variable" -> "variables"
      [] op = "add_block" -> "blocks"

\* the step is a call of one of the four add_* methods with a name that is
\* already present in its mapping
DuplicateAdd ==
    /\ last'.op \in AddOps
    /\ Has(NodeAt(net, last'.target)[ListOf(last'.op)], last'.name)

\* C3: a call of add_attribute, add_dimension, add_variable or add_block
\* with a name already present and force=false raises and leaves the four
\* mappings of the block unchanged
C3_DuplicateRejected ==
    [][(DuplicateAdd /\ ~last'.force) => (err' = "ValueError" /\ net' = net)]_vars

C3_Witness ==
    /\ last.op = "add_dimension"
    /\ ~last.force
    /\ err = "ValueError"
    /\ Has(NodeAt(net, last.target).dimensions, last.name)

\* the entity a well-formed forced call stores
Stored(l, e) ==
    CASE l.op = "add_attribute" -> e = Attribute(l.name, l.call.args[1].val)
      [] l.op = "add_dimension" -> e = Dimension(l.name, l.call.args[1].val)
      [] l.op = "add_variable" -> e = l.call.args[1].var
      [] l.op = "add_block" -> e = l.call.block.arg.blk

\* C4: a call of add_attribute, add_dimension, add_variable or add_block
\* with a name already present and force=true succeeds, stores the new
\* entity under the name and changes nothing else: the other entries of the
\* mapping, their order and number, and the other three mappings
C4_ForcedOverwrite ==
    [][(DuplicateAdd /\ last'.force) =>
        LET old == NodeAt(net, last'.target)
            new == NodeAt(net', last'.target)
            m == ListOf(last'.op)
        IN  /\ err' = "ok"
            /\ Stored(last', Get(new[m], last'.name))
            /\ Len(new[m]) = Len(old[m])
            /\ \A i \in 1..Len(old[m]) :
                    /\ new[m][i].key = old[m][i].key
                    /\ old[m][i].key # last'.name => new[m][i] = old[m][i]
            /\ \A o \in {"attributes", "dimensions", "variables", "blocks"} \ {m} :
                    new[o] = old[o]
            /\ net' = SetAt(net, last'.target, new)]_vars

\* an attribute was overwritten by a different value next to another entry
C4_Witness ==
    /\ last.op = "add_attribute"
    /\ last.force
    /\ err = "ok"
    /\ Len(net.attributes) = 2
    /\ last.name = "id"
    /\ Get(net.attributes, "id").value = StrV("x")
    /\ nops = 2

\* C5: SMSNetwork() has file_type eProbFile, SMSNetwork(file_type=X) has
\* file_type X, and after file_type = Y reading file_type gives Y
C5_FileTypeGetSet ==
    /\ nops = 0 => file_type(net) = [err |-> "ok", ft |-> eProbFile]
    /\ (last.op = "SMSNetwork" /\ last.fp = "") =>
            file_type(net) = [err |-> "ok", ft |-> last.value.i]
    /\ (last.op = "file_type" /\ last.value.i \in SMSFileType) =>
            (err = "ok" /\ file_type(net) = [err |-> "ok", ft |-> last.value.i])

\* a network built as a block file was reassigned to a solution file
C5_Witness ==
    /\ last.op = "file_type"
    /\ last.value.i = eSolutionFile
    /\ file_type(net).ft = eSolutionFile
    /\ nops = 2

\* the calls the claim on the mandatory file kind ranges over
NetworkEdits == {"add", "remove", "add_attribute", "from_kwargs", "file_type"}

\* C6: add, remove, add_attribute, from_kwargs and file_type assignments
\* keep the file kind of a network readable as one of the four enumerants
C6_FileKindPreserved ==
    [][(last'.op \in NetworkEdits /\ file_type(net).err = "ok")
            => file_type(net').err = "ok"]_vars

\* the step loads a network from an existing document
LoadStep ==
    /\ last'.op = "SMSNetwork"
    /\ last'.fp # ""
    /\ files[last'.fp].exists

\* the value is an integer or a string int() parses
IntConvertible(v) ==
    v.kind = "int" \/ \E n \in 1..Len(Numerals) : Numerals[n] = v.s

C8_OverwriteGuard ==
    [][(last'.op = "to_netcdf" /\ ~last'.force /\ files[last'.fp].exists)
            => (err' = "FileExistsError" /\ files' = files)]_vars

\* the second of two writes to a path that did not exist at first was refused
C8_Witness ==
    /\ last.op = "to_netcdf"
    /\ last.fp = "b.nc"
    /\ ~last.force
    /\ err = "FileExistsError"
    /\ files["b.nc"].exists

\* the place of a container call in the order of a node
Rank(op) ==
    CASE op = "setncattr" -> 1
      [] op = "createDimension" -> 2
      [] op \in {"createVariable", "assign"} -> 3
      [] op = "createGroup" -> 4

\* p is a prefix of q
IsPrefix(p, q) == Len(p) <= Len(q) /\ SubSeq(q, 1, Len(p)) = p

\* C9: in the calls of a to_netcdf, every node has its attributes written
\* first, then its dimensions declared, then its variables created, then its
\* sub-groups, each after the node's own entries; so a variable is created
\* after every dimension it names that its node or an ancestor declares
C9_WriteOrdering ==
    /\ \A i, j \in 1..Len(wlog) :
            (i < j /\ wlog[i].grp = wlog[j].grp) => Rank(wlog[i].op) <= Rank(wlog[j].op)
    /\ \A i, j \in 1..Len(wlog) :
            (i < j /\ IsPrefix(wlog[j].grp, wlog[i].grp) /\ wlog[j].grp # wlog[i].grp)
                => wlog[j].op = "createGroup"
    /\ \A j \in 1..Len(wlog) :
            wlog[j].op = "createVariable" =>
                \A k \in 1..Len(wlog[j].dimensions), n \in 0..Len(wlog[j].grp) :
                    LET q == SubSeq(wlog[j].grp, 1, n)
                        d == wlog[j].dimensions[k]
                    IN  Has(NodeAt(net, q).dimensions, d) =>
                            \E i \in 1..(j - 1) :
                                /\ wlog[i].op = "createDimension"
                                /\ wlog[i].grp = q
                                /\ wlog[i].key = d

\* a network was written whose sub-block has a variable along a dimension
\* of the root
C9_Witness ==
    /\ last.op = "to_netcdf"
    /\ err = "ok"
    /\ \E j \in 1..Len(wlog) :
            /\ wlog[j].op = "createVariable"
            /\ wlog[j].grp # << >>
            /\ wlog[j].dimensions = <<"TimeHorizon">>
            /\ Has(net.dimensions, "TimeHorizon")
            /\ ~Has(NodeAt(net, wlog[j].grp).dimensions, "TimeHorizon")

\* the dimension a name denotes for the block at path: the one of the block
\* or else of its nearest ancestor
RECURSIVE DimensionOf(_, _, _)
DimensionOf(b, path, d) ==
    IF Has(NodeAt(b, path).dimensions, d)
    THEN [found |-> TRUE, value |-> Get(NodeAt(b, path).dimensions, d).value]
    ELSE IF path = << >>
    THEN [found |-> FALSE, value |-> IntV(0)]
    ELSE DimensionOf(b, SubSeq(path, 1, Len(path) - 1), d)

\* the variables of the tree: path of the block and position in its mapping
VariablesOf(b) ==
    UNION {{<<p, i>> : i \in 1..Len(NodeAt(b, p).variables)} : p \in NodePaths(b)}

VariableAt(b, pi) == NodeAt(b, pi[1]).variables[pi[2]].val

\* number of axes of the data
DataRank(data) == IF data.scalar THEN 0 ELSE 1

\* the data's rank or length disagrees with the current values of the
\* dimensions the variable names, or a named dimension is not declared
AnyMismatch(b, pi) ==
    LET v == VariableAt(b, pi)
    IN  \/ DataRank(v.data) # Len(v.dimensions)
        \/ \E k \in 1..Len(v.dimensions) :
                LET dim == DimensionOf(b, pi[1], v.dimensions[k])
                IN  ~dim.found \/ (~v.data.scalar /\ Len(v.data.elems) # dim.value.i)

\* the disagreements the container refuses: a dimension that is not
\* declared, array data of a length other than the non-zero value of the
\* dimension, array data of a length other than one for no dimension
HardMismatch(b, pi) ==
    LET v == VariableAt(b, pi)
    IN  \/ Len(v.dimensions) = 0 /\ Len(v.data.elems) # 1
        \/ \E k \in 1..Len(v.dimensions) :
                LET dim == DimensionOf(b, pi[1], v.dimensions[k])
                IN  \/ ~dim.found
                    \/ /\ ~v.data.scalar
                       /\ dim.value.i # 0
                       /\ Len(v.data.elems) # dim.value.i

\* every dimension value is a non-negative integer and every type tag
\* denotes an element type
WellTyped(b) ==
    /\ \A p \in NodePaths(b) : \A i \in 1..Len(NodeAt(b, p).dimensions) :
            LET x == NodeAt(b, p).dimensions[i].val.value
            IN  x.kind = "int" /\ x.i >= 0
    /\ \A pi \in VariablesOf(b) : numpy_dtype(VariableAt(b, pi).var_type) \in NativeTypes

\* the step adds a Variable object under a free name or with force
AddsVariable ==
    /\ last'.op = "add_variable"
    /\ Len(last'.call.args) = 1
    /\ last'.call.args[1].vk = "Variable"
    /\ last'.force \/ ~Has(NodeAt(net, last'.target).variables, last'.name)

\* the step is a to_netcdf that opens the destination
WriteStep ==
    /\ last'.op = "to_netcdf"
    /\ last'.force \/ ~files[last'.fp].exists

VariableAccepted ==
    AddsVariable =>
        /\ err' = "ok"
        /\ Get(NodeAt(net', last'.target).variables, last'.name) = last'.call.args[1].var

Pairs(m, f(_)) == {<<m[i].key, f(m[i].val)>> : i \in 1..Len(m)}

ValueOf(e) == e.value

DescriptionOf(v) == <<v.var_type, v.dimensions, v.data>>

\* the two trees have at every node the same attribute and dimension
\* name->value pairs, the same variables (name, type tag, axis names, data)
\* and the same child names
RECURSIVE SameTree(_, _)
SameTree(b, r) ==
    /\ Pairs(b.attributes, ValueOf) = Pairs(r.attributes, ValueOf)
    /\ Pairs(b.dimensions, ValueOf) = Pairs(r.dimensions, ValueOf)
    /\ Pairs(b.variables, DescriptionOf) = Pairs(r.variables, DescriptionOf)
    /\ Keys(b.blocks) = Keys(r.blocks)
    /\ \A k \in Keys(b.blocks) : SameTree(Get(b.blocks, k), Get(r.blocks, k))

\* the block the written file reads back as
Reloaded == Block_from_netcdf(EmptyBlock, files'[last'.fp].ds, << >>)

ReadsBackAs(b, path, v, w) ==
    /\ w.dimensions = v.dimensions
    /\ w.var_type = numpy_dtype(v.var_type)
    /\ Len(v.dimensions) = 0 => w.data = ScalarData(v.data.elems[1])
    /\ Len(v.dimensions) = 1 =>
            IF v.data.scalar
            THEN /\ ~w.data.scalar
                 /\ \A i \in 1..Len(w.data.elems) : w.data.elems[i] = v.data.elems[1]
            ELSE DimensionOf(b, path, v.dimensions[1]).value.i # 0 => w.data = v.data

\* the tree read back agrees with the tree written up to what the container
\* does to type tags, scalar data and dimensions of value 0
RECURSIVE RoundTrips(_, _, _)
RoundTrips(b, path, r) ==
    LET n == NodeAt(b, path)
        m == NodeAt(r, path)
    IN  /\ Pairs(n.attributes, ValueOf) = Pairs(m.attributes, ValueOf)
        /\ Keys(n.dimensions) = Keys(m.dimensions)
        /\ \A k \in Keys(n.dimensions) :
                Get(n.dimensions, k).value.i # 0 =>
                    Get(m.dimensions, k).value = Get(n.dimensions, k).value
        /\ Keys(n.variables) = Keys(m.variables)
        /\ \A k \in Keys(n.variables) :
                ReadsBackAs(b, path, Get(n.variables, k), Get(m.variables, k))
        /\ Keys(n.blocks) = Keys(m.blocks)
        /\ \A k \in Keys(n.blocks) : RoundTrips(b, Append(path, k), r)

RECURSIVE SameContainer(_, _, _)
SameContainer(f, g, path) ==
    LET x == GroupAt(f, path)
        y == GroupAt(g, path)
        size(d) == d.size
        inF(v) == <<v.dtype, v.dimensions, read_data(f, path, v)>>
        inG(v) == <<v.dtype, v.dimensions, read_data(g, path, v)>>
        same(v) == v
    IN  /\ Pairs(x.attrs, same) = Pairs(y.attrs, same)
        /\ Pairs(x.dims, size) = Pairs(y.dims, size)
        /\ Pairs(x.vars, inF) = Pairs(y.vars, inG)
        /\ Keys(x.groups) = Keys(y.groups)
        /\ \A k \in Keys(x.groups) : SameContainer(f, g, Append(path, k))

LookupTypes ==
    << None, Some(StrV("UCBlock")), Some(StrV("ThermalUnitBlock")),
       Some(StrV("FooBlock")), Some(StrV("SlackBlock")), Some(IntV(7)) >>

\* the state that a call of get_attr_field leaves alone
network == <<net, files, err, last, wlog, nops, handles>>

LookupInit ==
    /\ net = SMSNetwork_init(IntV(eProbFile), Dict, Dict, Dict, Dict).blk
    /\ files = [fp \in Paths |-> NoFile]
    /\ err = "ok"
    /\ last = LastCall("SMSNetwork")
    /\ wlog = << >>
    /\ nops = 0
    /\ handles = {}
    /\ lookup = NoLookup
    /\ heap = << >>
    /\ ret = NoReturn
    /\ NoTools

\* get_attr_field(block_type, attr_name, "smspp_object") is entered
CallGetAttrField(t, attr_name) ==
    /\ lookup.state # "called"
    /\ lookup' = [NoLookup EXCEPT !.state = "called", !.block_type = LookupTypes[t],
                                  !.attr_name = attr_name]
    /\ UNCHANGED <<heap, ret>>
    /\ UNCHANGED network
    /\ UNCHANGED tools

\* ... and returns or raises
ReturnGetAttrField ==
    /\ lookup.state = "called"
    /\ lookup' = [lookup EXCEPT !.state = "returned",
                                !.result = get_attr_field(lookup.block_type,
                                                          lookup.attr_name)]
    /\ UNCHANGED <<heap, ret>>
    /\ UNCHANGED network
    /\ UNCHANGED tools

LookupNext ==
    \/ \E t \in 1..Len(LookupTypes), attr_name \in Names : CallGetAttrField(t, attr_name)
    \/ ReturnGetAttrField

LookupSpec == LookupInit /\ [][LookupNext]_vars

\* the declared names of role Block / of another role in a block type
Declared(t, block_role) ==
    {blocks[t][i].key : i \in {j \in 1..Len(blocks[t]) :
                                    (blocks[t][j].val = "Block") = block_role}}

\* x is y followed by zero or more characters
Extends(x, y) ==
    \E k \in 0..Len(Spelling[x]) : SubSeq(Spelling[x], 1, k) = Spelling[y]

\* C11: get_attr_field(block_type, name) resolves name to itself when it is
\* exactly a declared name of a role other than Block; otherwise to the one
\* declared name of role Block that name extends; when it extends none the
\* call raises the not-found error, when it extends more than one the
\* ambiguous-name error
C11_PrefixDisambiguation ==
    (lookup.state = "returned" /\ lookup.block_type.given
        /\ lookup.block_type.v.kind = "str"
        /\ lookup.block_type.v.s \in DOMAIN blocks) =>
    LET t == lookup.block_type.v.s
        name == lookup.attr_name
        r == lookup.result
        matches == {d \in Declared(t, TRUE) : Extends(name, d)}
    IN  /\ name \in Declared(t, FALSE) =>
                r.err = "ok" /\ r.attr = name /\ r.smspp_object # "Block"
        /\ (name \notin Declared(t, FALSE) /\ Cardinality(matches) = 1) =>
                r.err = "ok" /\ r.attr \in matches /\ r.smspp_object = "Block"
        /\ (name \notin Declared(t, FALSE) /\ matches = {}) =>
                r.err = "ValueError" /\ r.msg = "not found"
        /\ (name \notin Declared(t, FALSE) /\ Cardinality(matches) > 1) =>
                r.err = "ValueError" /\ r.msg = "Ambiguous"

\* FooBar_1 was looked up where Foo and FooBar are declared, and the call
\* raised
C11_Witness ==
    /\ lookup.state = "returned"
    /\ lookup.block_type = Some(StrV("FooBlock"))
    /\ lookup.attr_name = "FooBar_1"
    /\ lookup.result.msg = "Ambiguous"

\* ------------------------------------------------------------------------
\* Block objects by identity: heap[o] is the Block object o, and a block
\* stored in a mapping of sub-blocks is the reference of an object

MaxCalls == 3

MaxObjects == 3

Ref(o) == [ref |-> o]

IsRef(x) == "ref" \in DOMAIN x

\* return self.attributes[name] / self.dimensions[name] / self.variables[name]
Entity(e) == [what |-> "entity", ref |-> 0, entity |-> e]

\* return self, or another Block object
Object(o) == [what |-> "Block", ref |-> o, entity |-> IntV(0)]

add_attribute_returns(b, name) == Entity(Get(b.attributes, name))

add_dimension_returns(b, name) == Entity(Get(b.dimensions, name))

add_variable_returns(b, name) == Entity(Get(b.variables, name))

\* add_block ends with `return self`
add_block_returns(self, b, name) == Object(self)

from_kwargs_returns(self) == Object(self)

\* what add returns on the object self, b being its content after the call
add_returns(self, b, component_name, name) ==
    LET component_nctype == components[component_name].nctype
    IN  CASE component_nctype = "Attribute" -> add_attribute_returns(b, name)
          [] component_nctype = "Dimension" -> add_dimension_returns(b, name)
          [] component_nctype = "Variable" -> add_variable_returns(b, name)
          [] component_nctype = "Block" -> add_block_returns(self, b, name)

\* remove returns what pop returns, b being the content before the call
remove_returns(b, component_name, name) ==
    LET d == b[static(component_name).list_name]
    IN  IF ~Has(d, name)
        THEN NoReturn
        ELSE IF IsRef(Get(d, name)) THEN Object(Get(d, name).ref) ELSE Entity(Get(d, name))

\* kwargs.pop("block_type"): the keywords as written, split into the
\* block_type and the remaining keywords in their order
pop_block_type(kwargs) ==
    LET at == {i \in 1..Len(kwargs) : kwargs[i].key = "block_type"}
    IN  IF at = {}
        THEN Kwargs(NoType, kwargs)
        ELSE LET i == CHOOSE j \in at : TRUE
             IN  Kwargs([given |-> TRUE, t |-> kwargs[i].arg.val],
                        SubSeq(kwargs, 1, i - 1) \o SubSeq(kwargs, i + 1, Len(kwargs)))

\* Block().from_kwargs(**kwargs) inside add_block, and _from_netcdf for each
\* group, construct objects: a block that a call stored by value becomes a
\* new object of the heap
RECURSIVE Hoist(_)
Hoist(h) ==
    LET made == UNION {{<<o, i>> : i \in {j \in 1..Len(h[o].blocks) :
                                                ~IsRef(h[o].blocks[j].val)}} :
                            o \in 1..Len(h)}
    IN  IF made = {}
        THEN h
        ELSE LET m == CHOOSE x \in made : \A y \in made :
                            x[1] < y[1] \/ (x[1] = y[1] /\ x[2] <= y[2])
             IN  Hoist(Append([h EXCEPT ![m[1]].blocks[m[2]].val = Ref(Len(h) + 1)],
                              h[m[1]].blocks[m[2]].val))

Allocate(h, self, b) == Hoist([h EXCEPT ![self] = b])

\* the block that the object o and the objects below it make up
RECURSIVE Deref(_, _)
Deref(h, o) ==
    [h[o] EXCEPT !.blocks =
        [i \in 1..Len(h[o].blocks) |->
            [key |-> h[o].blocks[i].key, val |-> Deref(h, h[o].blocks[i].val.ref)]]]

\* self.from_kwargs(**kwargs) at the end of Block.__init__, obj being what
\* from_netcdf returned or raised
Block_from_kwargs(obj, kw) ==
    IF obj.err # "ok" THEN obj ELSE from_kwargs(obj.blk, kw)

\* a constructor that takes the mappings it is given before those of the file
Block_explicit_first(fs, fp, attributes, dimensions, variables, blks, kw) ==
    IF fp # "" /\ attributes = Dict /\ dimensions = Dict /\ variables = Dict /\ blks = Dict
    THEN Block_from_kwargs(from_netcdf("Block", fs, fp), kw)
    ELSE from_kwargs([attributes |-> attributes, dimensions |-> dimensions,
                      variables |-> variables, blocks |-> blks], kw)

\* Block(fp, attributes, dimensions, variables, blocks, **kwargs); a mapping
\* that is not given, or is empty, is Dict()
Block(fs, fp, attributes, dimensions, variables, blks, kw) ==
    IF fp # ""
    THEN Block_from_kwargs(from_netcdf("Block", fs, fp), kw)
    ELSE from_kwargs([attributes |-> attributes, dimensions |-> dimensions,
                      variables |-> variables, blocks |-> blks], kw)

\* the mappings given to the constructor: none, or one of each
ExplicitMaps ==
    << [attributes |-> Dict, dimensions |-> Dict, variables |-> Dict, blocks |-> Dict],
       [attributes |-> <<[key |-> "id", val |-> Bare(IntV(7))]>>,
        dimensions |-> <<[key |-> "NumberUnits", val |-> Bare(IntV(2))]>>,
        variables |-> <<[key |-> "MinPower", val |-> MinPower]>>,
        blocks |-> <<[key |-> "Block_0", val |-> Ref(1)]>>] >>

\* the calls made on Block objects
HeapAddInputs ==
    << <<"Attribute", "id", ScalarArg(IntV(7))>>,
       <<"Dimension", "id", ScalarArg(IntV(2))>>,
       <<"Variable", "id", VariableArg(MinPower)>>,
       <<"Attribute", "type", ScalarArg(StrV("ThermalUnitBlock"))>> >>

HeapPayloads ==
    << <<"UCBlock", <<Field("TimeHorizon", ScalarArg(IntV(3)))>> >>,
       <<"ThermalUnitBlock", <<Field("MinPower", VariableArg(MinPower))>> >>,
       <<"UCBlock", <<Field("MinPower", VariableArg(MinPower))>> >> >>

HeapKwargs ==
    << <<Field("block_type", ScalarArg(StrV("UCBlock"))),
         Field("id", ScalarArg(StrV("0"))),
         Field("TimeHorizon", ScalarArg(IntV(3)))>>,
       <<Field("NumberUnits", ScalarArg(IntV(2))),
         Field("block_type", ScalarArg(StrV("UCBlock"))),
         Field("TimeHorizon", ScalarArg(IntV(3)))>>,
       <<Field("MinPower", VariableArg(MinPower)),
         Field("MaxPower", VariableArg(MinPower)),
         Field("block_type", ScalarArg(StrV("ThermalUnitBlock")))>>,
       <<Field("TimeHorizon", ScalarArg(IntV(2)))>> >>

HeapRemoveInputs ==
    {<<"Attribute", "id">>, <<"Variable", "id">>, <<"Block", "Block_0">>,
     <<"Constraint", "id">>}

\* one Block() has been constructed; a solution document is on the disk
HeapInit ==
    /\ net = SMSNetwork_init(IntV(eProbFile), Dict, Dict, Dict, Dict).blk
    /\ files = [fp \in Paths |-> IF fp = "a.nc" THEN File(SolutionFile) ELSE NoFile]
    /\ err = "ok"
    /\ last = LastCall("Block")
    /\ wlog = << >>
    /\ nops = 0
    /\ handles = {}
    /\ lookup = NoLookup
    /\ heap = <<EmptyBlock>>
    /\ ret = NoReturn
    /\ NoTools

\* a call on the object self that leaves it with content r.blk, returning rv
\* when it does not raise
HeapCall(self, r, l, rv) ==
    LET h == Allocate(heap, self, r.blk)
    IN  /\ nops < MaxCalls
        /\ Len(h) <= MaxObjects
        /\ heap' = h
        /\ err' = r.err
        /\ last' = [l EXCEPT !.target = <<self>>]
        /\ ret' = IF r.err = "ok" THEN rv ELSE NoReturn
        /\ nops' = nops + 1
        /\ UNCHANGED <<net, files, wlog, handles, lookup>>
        /\ UNCHANGED tools

\* a constructor call that returned or raised r: one that raises makes no
\* object
Constructed(fp, i, r) ==
    /\ nops < MaxCalls
    /\ heap' = IF r.err = "ok" THEN Hoist(Append(heap, r.blk)) ELSE heap
    /\ Len(heap') <= MaxObjects
    /\ err' = r.err
    /\ last' = [LastCall("Block") EXCEPT !.target = <<Len(heap) + 1>>, !.fp = fp,
                                         !.value = IntV(i)]
    /\ ret' = IF r.err = "ok" THEN Object(Len(heap) + 1) ELSE NoReturn
    /\ nops' = nops + 1
    /\ handles' = IF fp = "" THEN handles
                   ELSE from_netcdf_handles(handles, files, fp, r.err)
    /\ UNCHANGED <<net, files, wlog, lookup>>
    /\ UNCHANGED tools

\* Block(fp=fp, attributes=..., dimensions=..., variables=..., blocks=...)
\* with the mappings ExplicitMaps[i]
NewBlock(fp, i) ==
    Constructed(fp, i,
        Block(files, fp, ExplicitMaps[i].attributes, ExplicitMaps[i].dimensions,
              ExplicitMaps[i].variables, ExplicitMaps[i].blocks, NoKwargs))

\* self.add(component_name, name, value, force=force)
HeapAdd(self, i, force) ==
    LET component_name == HeapAddInputs[i][1]
        name == HeapAddInputs[i][2]
        c == Call(<<HeapAddInputs[i][3]>>, force)
        r == add(heap[self], component_name, name, c)
    IN  HeapCall(self, r,
                 [LastCall("add") EXCEPT !.component = component_name, !.name = name,
                                         !.call = c, !.force = force],
                 add_returns(self, r.blk, component_name, name))

\* self.add(component_name, name, force=force, **fields)
HeapAddPayload(self, name, i, force) ==
    LET component_name == HeapPayloads[i][1]
        c == [Call(<< >>, force) EXCEPT !.fields = HeapPayloads[i][2]]
        r == add(heap[self], component_name, name, c)
    IN  HeapCall(self, r,
                 [LastCall("add") EXCEPT !.component = component_name, !.name = name,
                                         !.call = c, !.force = force],
                 add_returns(self, r.blk, component_name, name))

\* self.add_block(name, block=other, force=force)
HeapAddBlock(self, name, other, force) ==
    LET c == [Call(<< >>, force) EXCEPT !.block = BlockKw(BlockArg(Ref(other)))]
        r == add_block(heap[self], name, c)
    IN  HeapCall(self, r,
                 [LastCall("add_block") EXCEPT !.name = name, !.call = c, !.force = force],
                 add_block_returns(self, r.blk, name))

\* self.add("Block", name, other, force=force)
HeapAddObject(self, name, other, force) ==
    LET c == Call(<<BlockArg(Ref(other))>>, force)
        r == add(heap[self], "Block", name, c)
    IN  HeapCall(self, r,
                 [LastCall("add") EXCEPT !.component = "Block", !.name = name,
                                         !.call = c, !.force = force],
                 add_returns(self, r.blk, "Block", name))

\* self.from_kwargs(**kwargs)
HeapFromKwargs(self, i) ==
    LET kw == pop_block_type(HeapKwargs[i])
        r == from_kwargs(heap[self], kw)
    IN  HeapCall(self, r,
                 [LastCall("from_kwargs") EXCEPT
                    !.call = [Call(<< >>, FALSE) EXCEPT !.block_type = kw.block_type,
                                                        !.fields = HeapKwargs[i]]],
                 from_kwargs_returns(self))

\* self.remove(component_name, name)
HeapRemove(self, component_name, name) ==
    LET r == remove(heap[self], component_name, name)
    IN  HeapCall(self, r,
                 [LastCall("remove") EXCEPT !.component = component_name, !.name = name],
                 IF r.err = "ok" THEN remove_returns(heap[self], component_name, name)
                 ELSE NoReturn)

\* self.block_type = t
HeapSetBlockType(self, t) ==
    HeapCall(self, Ok(set_block_type(heap[self], StrV(t))),
             [LastCall("block_type") EXCEPT !.value = StrV(t)], NoReturn)

HeapNext ==
    \/ \E fp \in {""} \cup Paths, i \in 1..Len(ExplicitMaps) : NewBlock(fp, i)
    \/ \E self \in 1..Len(heap), i \in 1..Len(HeapAddInputs), force \in BOOLEAN :
            HeapAdd(self, i, force)
    \/ \E self \in 1..Len(heap), i \in 1..Len(HeapPayloads) :
            HeapAddPayload(self, "Block_0", i, FALSE)
    \/ \E self \in 1..Len(heap), other \in 1..Len(heap) :
            HeapAddBlock(self, "Block_0", other, TRUE)
    \/ \E self \in 1..Len(heap), other \in 1..Len(heap) :
            HeapAddObject(self, "UnitBlock_0", other, FALSE)
    \/ \E self \in 1..Len(heap), i \in 1..Len(HeapKwargs) : HeapFromKwargs(self, i)
    \/ \E self \in 1..Len(heap), rm \in HeapRemoveInputs : HeapRemove(self, rm[1], rm[2])
    \/ \E self \in 1..Len(heap), t \in {"UCBlock", ""} : HeapSetBlockType(self, t)

HeapSpec == HeapInit /\ [][HeapNext]_vars

\* the keywords of the last from_kwargs call other than block_type, in the
\* order they were written
OtherKeywords ==
    LET kwargs == last'.call.fields
    IN  [i \in 1..Len(pop_block_type(kwargs).fields) |-> pop_block_type(kwargs).fields[i]]

\* the mapping in which a block of type t stores the keyword key
MappingOf(t, key) ==
    components[get_attr_field(Some(t), key).smspp_object].list_name

Mappings == {"attributes", "dimensions", "variables", "blocks"}

\* C13: a call of add(component_name, name, ...) that returns has stored name
\* in the mapping of the role of component_name and has left the other three
\* mappings of the block as they were; a value added under a name the block
\* holds under other roles only is accepted
C13_RoleDispatchFrame ==
    [][(last'.op = "add" /\ last'.component \in DOMAIN components) =>
        LET self == last'.target[1]
            m == components[last'.component].list_name
        IN  /\ err' = "ok" =>
                /\ Has(heap'[self][m], last'.name)
                /\ \A other \in Mappings \ {m} : heap'[self][other] = heap[self][other]
            /\ (m # "blocks" /\ ~Has(heap[self][m], last'.name)) => err' = "ok"
    ]_vars

\* the name id was added as a dimension to a block that holds an attribute
\* and a variable of that name
C13_Witness ==
    /\ last.op = "add"
    /\ last.component = "Dimension"
    /\ last.name = "id"
    /\ ~last.force
    /\ err = "ok"
    /\ \E o \in 1..Len(heap) :
        /\ last.target = <<o>>
        /\ Has(heap[o].attributes, "id")
        /\ Has(heap[o].variables, "id")
        /\ Has(heap[o].dimensions, "id")

\* C14: a call of add that returns gives back the component it created: for
\* the roles Attribute, Dimension and Variable the entity stored under the
\* name; for a role Block with a keyword payload the new sub-block, which is
\* the object stored at blocks[name] and whose block_type is component_name
C14_AddReturnsCreated ==
    [][(last'.op = "add" /\ err' = "ok") =>
        LET self == last'.target[1]
            m == components[last'.component].list_name
            stored == Get(heap'[self][m], last'.name)
        IN  IF m # "blocks"
            THEN ret' = Entity(stored)
            ELSE (Len(last'.call.args) = 0 /\ ~last'.call.block.given) =>
                    /\ ret' = Object(stored.ref)
                    /\ block_type(heap'[stored.ref]) = Some(StrV(last'.component))
    ]_vars

\* the entries of a mapping other than the one of key k, in their order
Without(d, k) == SelectSeq(d, LAMBDA e : e.key # k)

\* C15: remove(component_name, name) of a name the mapping holds returns the
\* entity that was stored, leaves the name absent, and leaves the other
\* entries of the mapping, the other three mappings and every other block as
\* they were; of a name the mapping does not hold it raises the not-found
\* error and changes nothing
C15_RemoveReturnsStored ==
    [][(last'.op = "remove" /\ last'.component \in DOMAIN components) =>
        LET self == last'.target[1]
            m == components[last'.component].list_name
            name == last'.name
        IN  IF Has(heap[self][m], name)
            THEN /\ err' = "ok"
                 /\ LET x == Get(heap[self][m], name)
                    IN  ret' = IF m = "blocks" THEN Object(x.ref) ELSE Entity(x)
                 /\ ~Has(heap'[self][m], name)
                 /\ heap'[self][m] = Without(heap[self][m], name)
                 /\ \A other \in Mappings \ {m} : heap'[self][other] = heap[self][other]
                 /\ Len(heap') = Len(heap)
                 /\ \A o \in (1..Len(heap)) \ {self} : heap'[o] = heap[o]
            ELSE /\ err' = "KeyError"
                 /\ ret' = NoReturn
                 /\ heap' = heap
    ]_vars

\* a sub-block was removed from a block that keeps other components, and the
\* call returned it
C15_Witness ==
    /\ last.op = "remove"
    /\ last.component = "Block"
    /\ err = "ok"
    /\ ret.what = "Block"
    /\ \E o \in 1..Len(heap) :
        /\ last.target = <<o>>
        /\ ret.ref # o
        /\ heap[o].blocks = << >>
        /\ heap[o].attributes # << >>

\* C16: a block just constructed has block_type None; an assignment
\* block_type = t, for any string t and the empty one too, never raises,
\* makes block_type return t, leaves exactly one attribute named type, and
\* changes no other attribute, no other mapping and no other block, whether
\* or not the block had a type
C16_TypeProperty ==
    [][/\ (last'.op = "Block" /\ last'.fp = "" /\ last'.value = IntV(1)) =>
            block_type(heap'[last'.target[1]]) = None
       /\ last'.op = "block_type" =>
            LET self == last'.target[1]
                t == last'.value
            IN  /\ err' = "ok"
                /\ block_type(heap'[self]) = Some(t)
                /\ Cardinality({i \in 1..Len(heap'[self].attributes) :
                                    heap'[self].attributes[i].key = "type"}) = 1
                /\ Without(heap'[self].attributes, "type")
                        = Without(heap[self].attributes, "type")
                /\ \A other \in Mappings \ {"attributes"} :
                        heap'[self][other] = heap[self][other]
                /\ Len(heap') = Len(heap)
                /\ \A o \in (1..Len(heap)) \ {self} : heap'[o] = heap[o]
    ]_vars

\* the empty string was assigned to the type of a block filled as a UCBlock
C16_Witness ==
    /\ last.op = "block_type"
    /\ last.value = StrV("")
    /\ \E o \in 1..Len(heap) :
        /\ last.target = <<o>>
        /\ block_type(heap[o]) = Some(StrV(""))
        /\ Has(heap[o].dimensions, "TimeHorizon")
        /\ Len(heap[o].attributes) > 1

\* C17: a Block constructed with a path has the four mappings that
\* from_netcdf reads from the file at the path, whatever mappings the
\* constructor is given; the mappings given are those of a Block constructed
\* without a path
C17_ConstructorPrecedence ==
    [][(last'.op = "Block" /\ err' = "ok") =>
        LET o == last'.target[1]
            given == ExplicitMaps[last'.value.i]
            loaded == from_netcdf("Block", files, last'.fp).blk
        IN  IF last'.fp # ""
            THEN /\ heap'[o].attributes = loaded.attributes
                 /\ heap'[o].dimensions = loaded.dimensions
                 /\ heap'[o].variables = loaded.variables
                 /\ Keys(heap'[o].blocks) = Keys(loaded.blocks)
                 /\ Deref(heap', o) = loaded
            ELSE \A m \in Mappings : heap'[o][m] = given[m]
    ]_vars

\* a Block was constructed from a document with a sub-block while it was
\* given mappings of its own, and holds the sub-block of the document only
C17_Witness ==
    /\ last.op = "Block"
    /\ last.fp = "a.nc"
    /\ last.value = IntV(2)
    /\ err = "ok"
    /\ \E o \in 1..Len(heap) :
        /\ last.target = <<o>>
        /\ Keys(heap[o].blocks) = {"Solution_0"}
        /\ ~Has(heap[o].attributes, "id")

\* C18: a network constructed from a path has the file_type that the
\* file-kind attribute of the document gives as an integer, whatever file_type
\* the constructor was called with, and has the mappings read from the
\* document
C18_LoadedFileKind ==
    [][(LoadStep /\ err' = "ok") =>
        LET doc == files[last'.fp].ds
            loaded == Block_from_netcdf(EmptyBlock, doc, << >>)
        IN  /\ Has(doc.attrs, FILE_TYPE)
            /\ file_type(net') = [err |-> "ok", ft |-> int(Get(doc.attrs, FILE_TYPE)).i]
            /\ Without(net'.attributes, FILE_TYPE) = Without(loaded.attributes, FILE_TYPE)
            /\ net'.dimensions = loaded.dimensions
            /\ net'.variables = loaded.variables
            /\ net'.blocks = loaded.blocks
    ]_vars

\* the (parent, position) slots in which the object o is stored
SlotsOf(h, o) ==
    UNION {{<<p, i>> : i \in {j \in 1..Len(h[p].blocks) : h[p].blocks[j].val.ref = o}} :
                p \in 1..Len(h)}

\* the objects stored in the blocks mappings of the objects of S
ChildrenOf(h, S) ==
    UNION {{h[p].blocks[i].val.ref : i \in 1..Len(h[p].blocks)} : p \in S}

\* the objects reached from those of S in one to n steps through blocks
RECURSIVE Below(_, _, _)
Below(h, S, n) ==
    IF n = 0 THEN {} ELSE ChildrenOf(h, S) \cup Below(h, ChildrenOf(h, S), n - 1)

\* C19: whatever add_block and add calls were made on the Block objects, the
\* sub-block relation is a tree: every Block object is stored in at most one
\* (parent, name) slot, and none is reached from itself through the blocks
\* mappings
C19_TreeShape ==
    \A o \in 1..Len(heap) :
        /\ Cardinality(SlotsOf(heap, o)) <= 1
        /\ o \notin Below(heap, {o}, Len(heap))

\* C20: after a call of to_netcdf or from_netcdf has returned or raised, a
\* raise in the middle of the writing included, no handle on the file it
\* wrote or read is open
C20_HandlesClosed == handles = {}

\* a to_netcdf raised after it had made calls on the container it opened
C20_Witness ==
    /\ last.op = "to_netcdf"
    /\ err \notin {"ok", "FileExistsError"}
    /\ wlog # << >>
    /\ files[last.fp].exists
    /\ handles = {}

\* ------------------------------------------------------------------------
\* Insertion order

\* the keys of a mapping in iteration order
Order(d) == [i \in 1..Len(d) |-> d[i].key]

\* the names of old that are still in new are the first names of new, in the
\* order they had in old; the names new to the mapping come after them
KeepsOrder(old, new) ==
    LET ko == SelectSeq(Order(old), LAMBDA k : Has(new, k))
        kn == Order(new)
    IN  /\ Len(ko) <= Len(kn)
        /\ SubSeq(kn, 1, Len(ko)) = ko
        /\ \A i \in (Len(ko) + 1)..Len(kn) : ~Has(old, kn[i])

\* the keys that the calls op in a log of container calls gave the group grp
Written(log, op, grp) ==
    LET cs == SelectSeq(log, LAMBDA c : c.op = op /\ c.grp = grp)
    IN  [i \in 1..Len(cs) |-> cs[i].key]

\* the calls on a block that edit its mappings in place
EditOps ==
    {"add_attribute", "add_dimension", "add_variable", "add_block", "add", "from_kwargs",
     "remove", "block_type", "file_type", "increment_dimension"}

\* C25: a call of add_*, add, from_kwargs or remove on a block leaves the
\* names that stay in each of its four mappings in the order they had, a
\* forced overwrite included, and puts the new names after them; and a
\* to_netcdf that returns has written the attributes, dimensions, variables
\* and child groups of every node in the order of the node's mappings
C25_InsertionOrder ==
    [][/\ last'.op \in EditOps =>
            LET old == NodeAt(net, last'.target)
                new == NodeAt(net', last'.target)
            IN  /\ KeepsOrder(old.attributes, new.attributes)
                /\ KeepsOrder(old.dimensions, new.dimensions)
                /\ KeepsOrder(old.variables, new.variables)
                /\ KeepsOrder(old.blocks, new.blocks)
       /\ (last'.op = "to_netcdf" /\ err' = "ok") =>
            /\ \A p \in NodePaths(net') :
                    /\ Written(wlog', "setncattr", p) = Order(NodeAt(net', p).attributes)
                    /\ Written(wlog', "createDimension", p) = Order(NodeAt(net', p).dimensions)
                    /\ Written(wlog', "createVariable", p) = Order(NodeAt(net', p).variables)
                    /\ Written(wlog', "createGroup", p) = Order(NodeAt(net', p).blocks)
            /\ \A p \in NodePaths(net') :
                    LET g == GroupAt(files'[last'.fp].ds, p)
                        b == NodeAt(net', p)
                    IN  /\ Order(g.attrs) = Order(b.attributes)
                        /\ Order(g.dims) = Order(b.dimensions)
                        /\ Order(g.vars) = Order(b.variables)
                        /\ Order(g.groups) = Order(b.blocks)]_vars

\* a forced add_attribute has overwritten the first of several attributes,
\* which is still the first
C25_Witness ==
    /\ last.op = "add_attribute"
    /\ last.force
    /\ err = "ok"
    /\ Len(net.attributes) >= 2
    /\ net.attributes[1].key = last.name
    /\ net.attributes[1].val.value = last.call.args[1].val

\* ------------------------------------------------------------------------
\* Dimensions changed in place

\* C26: dimensions[N].value += 1 on a block changes the value that the
\* block's mapping holds for N, and nothing else of the entry; every
\* to_netcdf declares each dimension with the value the mapping holds when
\* it is called, and one that returns has declared every dimension of every
\* node
C26_InPlaceDimension ==
    [][/\ (last'.op = "increment_dimension" /\ err' = "ok") =>
            LET old == Get(NodeAt(net, last'.target).dimensions, last'.name)
                new == Get(NodeAt(net', last'.target).dimensions, last'.name)
            IN  /\ new.value = IntV(old.value.i + 1)
                /\ new.name = old.name
       /\ last'.op = "to_netcdf" =>
            /\ \A i \in 1..Len(wlog') :
                    wlog'[i].op = "createDimension" =>
                        wlog'[i].value =
                            Get(NodeAt(net', wlog'[i].grp).dimensions, wlog'[i].key).value
            /\ err' = "ok" =>
                    \A p \in NodePaths(net') :
                        Written(wlog', "createDimension", p) = Order(NodeAt(net', p).dimensions)]_vars

\* a network was written after TimeHorizon, added as 3 together with a
\* variable along it, was raised in place: the file declares it as 4
C26_Witness ==
    /\ last.op = "to_netcdf"
    /\ \E i, j \in 1..Len(wlog) :
            /\ wlog[i].op = "createDimension"
            /\ wlog[i].key = "TimeHorizon"
            /\ wlog[i].value = IntV(4)
            /\ wlog[j].op = "createVariable"
            /\ wlog[j].grp = wlog[i].grp
            /\ wlog[j].dimensions = <<"TimeHorizon">>
    /\ files[last.fp].exists
    /\ \E p \in NodePaths(net) :
            /\ Has(GroupAt(files[last.fp].ds, p).dims, "TimeHorizon")
            /\ Get(GroupAt(files[last.fp].ds, p).dims, "TimeHorizon").size = 4

\* ------------------------------------------------------------------------
\* Keys and names

\* every entry of the mapping is an entity whose name is its key
NamedByKey(d) == \A i \in 1..Len(d) : d[i].val.name = d[i].key

\* the entities of a block are stored under their names
KeyNameAgreement(b) ==
    /\ NamedByKey(b.attributes)
    /\ NamedByKey(b.dimensions)
    /\ NamedByKey(b.variables)

\* C27: a call of add_attribute, add_dimension, add_variable, add or
\* from_kwargs, one that passes an already-built Attribute, Dimension or
\* Variable object included, keeps the agreement of keys and names: every
\* Block object whose stored entities had a name field equal to their key
\* before the call has it after the call, and so has every Block object that
\* the call creates
C27_KeyNameAgreement ==
    [][last'.op \in {"add_attribute", "add_dimension", "add_variable", "add", "from_kwargs"} =>
            \A o \in 1..Len(heap') :
                (o <= Len(heap) => KeyNameAgreement(heap[o])) => KeyNameAgreement(heap'[o])]_vars

\* ------------------------------------------------------------------------
\* from_kwargs that raises

\* the mapping in which a block whose block_type is bt stores the keyword key
KeywordList(bt, key) == components[get_attr_field(bt, key).smspp_object].list_name

\* the entry of the name key in the mapping m of the block b, if any
Entries(b, m, key) == {b[m][i] : i \in {j \in 1..Len(b[m]) : b[m][j].key = key}}

\* C28: a from_kwargs that raises returns nothing and leaves the block with
\* the block_type it was given, or the one it had when it was given none;
\* there is a keyword k, the first whose name that type does not resolve or
\* whose name its mapping holds already, such that every keyword before k
\* is stored with the value passed, and the names of k and of the keywords
\* after it are in each of the four mappings exactly as they were before
\* the call
C28_FromKwargsNotAtomic ==
    [][(last'.op = "from_kwargs" /\ err' # "ok") =>
        LET self == last'.target[1]
            kws == OtherKeywords
            bt == IF last'.call.block_type.given
                  THEN Some(last'.call.block_type.t)
                  ELSE block_type(heap[self])
            raises == {i \in 1..Len(kws) :
                          \/ get_attr_field(bt, kws[i].key).err # "ok"
                          \/ Has(heap[self][KeywordList(bt, kws[i].key)], kws[i].key)}
        IN  /\ ret' = NoReturn
            /\ block_type(heap'[self]) = bt
            /\ raises # {}
            /\ \E k \in raises :
                /\ \A i \in 1..(k - 1) : i \notin raises
                /\ err' = IF get_attr_field(bt, kws[k].key).err # "ok"
                          THEN get_attr_field(bt, kws[k].key).err
                          ELSE "ValueError"
                /\ \A i \in 1..(k - 1) :
                        LET m == KeywordList(bt, kws[i].key)
                        IN  /\ Has(heap'[self][m], kws[i].key)
                            /\ kws[i].arg.vk = "scalar" =>
                                    Get(heap'[self][m], kws[i].key).value = kws[i].arg.val
                            /\ kws[i].arg.vk = "Variable" =>
                                    Get(heap'[self][m], kws[i].key) = kws[i].arg.var
                /\ \A i \in k..Len(kws), m \in Mappings :
                        Entries(heap'[self], m, kws[i].key) = Entries(heap[self], m, kws[i].key)
    ]_vars

\* from_kwargs(NumberUnits=2, block_type="UCBlock", TimeHorizon=3) on a block
\* that had TimeHorizon = 2 has raised: the block is a UCBlock, NumberUnits
\* is stored, and TimeHorizon is 2 still
C28_Witness ==
    /\ last.op = "from_kwargs"
    /\ err = "ValueError"
    /\ Len(last.call.fields) = 3
    /\ last.call.fields[1].key = "NumberUnits"
    /\ ret = NoReturn
    /\ \E o \in 1..Len(heap) :
        /\ last.target = <<o>>
        /\ block_type(heap[o]) = Some(StrV("UCBlock"))
        /\ Has(heap[o].dimensions, "NumberUnits")
        /\ Get(heap[o].dimensions, "NumberUnits") = Dimension("NumberUnits", IntV(2))
        /\ Has(heap[o].dimensions, "TimeHorizon")
        /\ Get(heap[o].dimensions, "TimeHorizon").value = IntV(2)
        /\ ~Has(heap[o].attributes, "id")

\* ------------------------------------------------------------------------
\* The parsers on their own: a solver object made as the tests make it, with
\* a log put into it

MaxLogLines == 3

\* the pieces that the logs are made of
Chunks ==
    <<Chunk("Status = ", "kOpt", TRUE, TRUE),
      Chunk("Status = ", "kUnbounded", FALSE, FALSE),
      Chunk("Upper bound = ", "100.0", FALSE, TRUE),
      Chunk("Upper bound = ", "abc", FALSE, TRUE),
      Chunk("Lower bound = ", "90.0", FALSE, TRUE),
      Chunk("Solution value: ", "42.0", FALSE, TRUE),
      Chunk("Fi* = ", "inf", FALSE, TRUE),
      Chunk("Solver status: ", "kOpt", FALSE, TRUE)>>

\* a log, by the numbers of its pieces
LogOf(ix) == [i \in 1..Len(ix) |-> Chunks[ix[i]]]

Logs == UNION {[1..n -> 1..Len(Chunks)] : n \in 0..MaxLogLines}

\* the parser objects: the base class and the three that the solver classes
\* configure
Parsers ==
    <<NoParser,
      log_parser("UCBlockSolver"),
      log_parser("InvestmentBlockTestSolver"),
      log_parser("InvestmentBlockSolver")>>

\* _make_solver(cls), and solver._log = log when a log is given
ParserInit ==
    /\ net = SMSNetwork_init(IntV(eProbFile), Dict, Dict, Dict, Dict).blk
    /\ files = [fp \in Paths |-> NoFile]
    /\ err = "ok"
    /\ last = LastCall("_make_solver")
    /\ wlog = << >>
    /\ nops = 0
    /\ handles = {}
    /\ lookup = NoLookup
    /\ heap = << >>
    /\ ret = NoReturn
    /\ \E cls \in SolverClasses, given \in BOOLEAN, ix \in Logs :
            /\ given \/ ix = << >>
            /\ solver = [SMSPPSolverTool_init(cls, "", "", NoPath, NoPath)
                            EXCEPT !.log = IF given THEN Log(LogOf(ix)) ELSE NoLog]
    /\ texts = [fp \in LogPaths |-> NoText]
    /\ trace = << >>
    /\ parsed = NoResult
    /\ proc = NoProcess

\* solver.parse_solver_log()
ParseSolverLog ==
    /\ solver' = parse_solver_log(solver).solver
    /\ err' = parse_solver_log(solver).err
    /\ last' = LastCall("parse_solver_log")
    /\ UNCHANGED <<net, files, wlog, nops, handles, lookup, heap, ret>>
    /\ UNCHANGED <<texts, trace, parsed, proc>>

\* Parsers[k].parse(solver.log)
Parse(k) ==
    /\ solver.log.given
    /\ parsed' = parse(Parsers[k], solver.log.text)
    /\ err' = parse(Parsers[k], solver.log.text).err
    /\ last' = [LastCall("parse") EXCEPT !.component = Parsers[k].kind,
                                         !.name = Parsers[k].primary]
    /\ UNCHANGED <<net, files, wlog, nops, handles, lookup, heap, ret>>
    /\ UNCHANGED <<solver, texts, trace, proc>>

ParserNext ==
    \/ ParseSolverLog
    \/ \E k \in 1..Len(Parsers) : Parse(k)

ParserSpec == ParserInit /\ [][ParserNext]_vars

\* the four result fields of a solver object
Fields(s) == <<s.status, s.objective_value, s.lower_bound, s.upper_bound>>

\* C22: parse_solver_log on a solver object of any class whose log is None
\* raises ValueError, and on an object of the base class, which configures no
\* parser, whose log is not None it raises NotImplementedError; in both
\* cases status, objective_value, lower_bound and upper_bound keep the values
\* they had
C22_ParseWithoutLogOrParser ==
    [][last'.op = "parse_solver_log" =>
        /\ ~solver.log.given =>
                /\ err' = "ValueError"
                /\ Fields(solver') = Fields(solver)
        /\ (solver.log.given /\ solver.cls = "SMSPPSolverTool") =>
                /\ err' = "NotImplementedError"
                /\ Fields(solver') = Fields(solver)]_vars

\* parse_solver_log has raised NotImplementedError on an object of the base
\* class that holds a log with a status line; its fields are None still
C22_Witness ==
    /\ last.op = "parse_solver_log"
    /\ err = "NotImplementedError"
    /\ solver.cls = "SMSPPSolverTool"
    /\ solver.log.given
    /\ \E i \in 1..Len(solver.log.text) : solver.log.text[i] = Chunks[1]
    /\ Fields(solver) = <<NoStatus, NoneValue, NoneValue, NoneValue>>

\* the line that the parser of a solver class looks for first
PrimaryPattern(cls) ==
    CASE cls \in {"UCBlockSolver", "TSSBlockSolver"} -> "Status = "
      [] cls = "InvestmentBlockTestSolver" -> "Fi* = "
      [] cls \in {"InvestmentBlockSolver", "SDDPSolver"} -> "Solution value: "

\* the log has the label with a newline somewhere after it
ContainsLine(log, label) ==
    \E i \in 1..Len(log) : log[i].label = label /\ \E j \in i..Len(log) : log[j].eol

\* C23: parse_solver_log on an object of a solver class with a parser, whose
\* log has no status line (UCBlockSolver, TSSBlockSolver) or no objective
\* line (the other three), returns and leaves status = "Failed" and
\* objective_value, lower_bound and upper_bound not-a-number, whatever
\* other lines the log has
C23_FailedWithoutPrimaryLine ==
    [][(/\ last'.op = "parse_solver_log"
        /\ solver.log.given
        /\ solver.cls # "SMSPPSolverTool"
        /\ ~ContainsLine(solver.log.text, PrimaryPattern(solver.cls))) =>
            /\ err' = "ok"
            /\ solver'.status = Status("Failed")
            /\ solver'.objective_value = nan
            /\ solver'.lower_bound = nan
            /\ solver'.upper_bound = nan]_vars

\* a UCBlockSolver whose log has both bound lines, and a status that no
\* newline ends, is Failed with not-a-number fields
C23_Witness ==
    /\ last.op = "parse_solver_log"
    /\ err = "ok"
    /\ solver.cls = "UCBlockSolver"
    /\ solver.log = Log(<<Chunks[3], Chunks[5], Chunks[2]>>)
    /\ Fields(solver) = <<Status("Failed"), nan, nan, nan>>

\* what the pattern of the label captures in the log, carriage returns
\* removed
Captured(log, label) == join(replace_cr(search(label, log).group))

\* C24: StatusBoundsSolverLogParser.parse on a log with a status line
\* returns the captured status; upper_bound is the number captured from the
\* upper-bound line when the log has one and not-a-number otherwise,
\* objective_value is the same as upper_bound, and lower_bound is the number
\* captured from the lower-bound line when the log has one and not-a-number
\* otherwise, whether or not the other bound line is there
C24_StatusBoundsParse ==
    [][(/\ last'.op = "parse"
        /\ last'.component = "StatusBounds"
        /\ ContainsLine(solver.log.text, "Status = ")) =>
            LET log == solver.log.text
            IN  /\ err' = "ok"
                /\ parsed'.status = Status(Captured(log, "Status = "))
                /\ parsed'.upper_bound =
                        IF ContainsLine(log, "Upper bound = ")
                        THEN float(Captured(log, "Upper bound = ")).v ELSE nan
                /\ parsed'.objective_value = parsed'.upper_bound
                /\ parsed'.lower_bound =
                        IF ContainsLine(log, "Lower bound = ")
                        THEN float(Captured(log, "Lower bound = ")).v ELSE nan]_vars

\* ------------------------------------------------------------------------
\* Specification of the solver tools: a network is built and written, solver
\* objects are made, and the network or a solver object is asked to optimize

\* what the solver process may write to its two pipes before it ends; the
\* last one ends in the middle of a line
Outputs ==
    << <<Chunks[1], Chunks[3], Chunks[5]>>,
       <<Chunks[6]>>,
       <<Chunks[1], Chunk("Upper bound = ", "100.0", FALSE, FALSE)>> >>

ReturnCodes == {0, 1}

ConfigArgs == ConfigFiles \cup {"missing.txt"}

SolverArgs == {"auto", "UCBlockSolver", "SDDPSolver"}

BlockTypeArgs == {"UCBlock", "InvestmentBlock", "SDDPBlock", "TSSBlock"}

SolutionPath == "b.nc"

NetworkPath == "a.nc"

\* the classes that solver objects are made of directly
ToolClasses == {"SMSPPSolverTool", "UCBlockSolver", "InvestmentBlockSolver"}

InTrace(tr, e) == \E i \in 1..Len(tr) : tr[i] = e

SolverInit ==
    /\ net = SMSNetwork_init(IntV(eProbFile), Dict, Dict, Dict, Dict).blk
    /\ files = [fp \in Paths |-> NoFile]
    /\ err = "ok"
    /\ last = LastCall("SMSNetwork")
    /\ wlog = << >>
    /\ nops = 0
    /\ handles = {}
    /\ lookup = NoLookup
    /\ heap = << >>
    /\ ret = NoReturn
    /\ NoTools

\* solver = cls(configfile=..., fp_network=..., fp_solution=..., fp_log=...)
NewSolver(cls, configfile, sol, lg) ==
    /\ nops < MaxOps
    /\ nops' = nops + 1
    /\ solver' = SMSPPSolverTool_init(cls, NetworkPath, configfile,
                    IF sol THEN Path(SolutionPath) ELSE NoPath,
                    IF lg THEN Path("log.txt") ELSE NoPath)
    /\ err' = "ok"
    /\ last' = [LastCall("SMSPPSolverTool") EXCEPT !.component = cls]
    /\ trace' = << >>
    /\ proc' = NoProcess
    /\ UNCHANGED <<net, files, wlog, handles, lookup, heap, ret>>
    /\ UNCHANGED <<texts, parsed>>

\* the handles open after a call of optimize that took the steps of o.trace
optimize_handles(hs, fs, o) ==
    IF InTrace(o.trace, "load_solution")
    THEN from_netcdf_handles(hs, fs, o.solver.fp_solution.fp, o.err)
    ELSE hs

\* the handles open after to_netcdf(fp_temp, force=True) in the call that
\* took the steps of o.trace
written_handles(hs, fs, fp_temp, o) ==
    IF InTrace(o.trace, "to_netcdf")
    THEN to_netcdf_handles(hs, fs, fp_temp, TRUE,
                           IF o.trace = <<"to_netcdf">> THEN o.err ELSE "ok")
    ELSE hs

\* the process that a call of optimize started, after it has ended
ended(o, returncode) ==
    IF InTrace(o.trace, "Popen")
    THEN [NoProcess EXCEPT !.pc = "done", !.returncode = returncode]
    ELSE NoProcess

\* solver.optimize() left o: the object keeps what optimize did to it
ToolOptimized(o, returncode) ==
    /\ solver' = o.solver
    /\ files' = o.fs
    /\ texts' = o.texts
    /\ trace' = o.trace
    /\ err' = o.err
    /\ last' = LastCall("optimize")
    /\ wlog' = << >>
    /\ handles' = optimize_handles(handles, o.fs, o)
    /\ nops' = nops + 1
    /\ proc' = ended(o, returncode)
    /\ UNCHANGED <<net, lookup, heap, ret, parsed>>

\* solver.optimize()
ToolOptimize(k, returncode, wrote) ==
    /\ nops < MaxOps
    /\ solver # NoSolver
    /\ wrote => solver.fp_solution.given
    /\ \E o \in {optimize(solver, files, texts, << >>, Outputs[k], returncode, wrote)} :
            ToolOptimized(o, returncode)

\* the calls of SMSNetwork.optimize: configfile, fp_temp and smspp_solver,
\* which is a string or the solver object
NetCalls ==
    (ConfigArgs \X {NetworkPath} \X SolverArgs)
        \cup (ConfigFiles \X Paths \X {"object"})

\* solver = net.optimize(...) left o: a solver object that was passed keeps
\* what optimize did to it, and solver is bound to what the call returns
NetOptimized(o, is_tool, returncode, l) ==
    /\ solver' = IF o.err = "ok" \/ is_tool THEN o.solver ELSE solver
    /\ files' = o.fs
    /\ texts' = o.texts
    /\ trace' = o.trace
    /\ err' = o.err
    /\ last' = l
    /\ wlog' = << >>
    /\ handles' = optimize_handles(written_handles(handles, files, l.fp, o), o.fs, o)
    /\ nops' = nops + 1
    /\ proc' = ended(o, returncode)
    /\ UNCHANGED <<net, lookup, heap, ret, parsed>>

\* solver = net.optimize(configfile, fp_temp, smspp_solver=smspp_solver):
\* fp_log, fp_solution and inner_block_name are left at their defaults
NetOptimize(configfile, fp_temp, smspp_solver, k, returncode, wrote) ==
    /\ nops < MaxOps
    /\ smspp_solver = "object" => solver # NoSolver
    /\ wrote => smspp_solver = "object" /\ solver.fp_solution.given
    /\ \E o \in {SMSNetwork_optimize(net, solver, files, texts, configfile, fp_temp,
                    NoPath, NoPath, smspp_solver = "object", smspp_solver, "Block_0",
                    Outputs[k], returncode, wrote)} :
            NetOptimized(o, smspp_solver = "object", returncode,
                         [LastCall("SMSNetwork.optimize") EXCEPT
                            !.component = smspp_solver, !.name = "Block_0",
                            !.fp = fp_temp])

SolverNext ==
    \/ \E force \in BOOLEAN : AddBlock(<< >>, "Block_0", ThermalUnitBlock, force)
    \/ \E p \in NodePaths(net), t \in BlockTypeArgs : SetBlockType(p, t)
    \/ \E fp \in Paths : ToNetcdf(fp, TRUE)
    \/ \E cls \in ToolClasses, configfile \in ConfigArgs, sol \in BOOLEAN,
          lg \in BOOLEAN :
            NewSolver(cls, configfile, sol, lg)
    \/ \E k \in 1..Len(Outputs), returncode \in ReturnCodes, wrote \in BOOLEAN :
            ToolOptimize(k, returncode, wrote)
    \/ \E c \in NetCalls, k \in 1..Len(Outputs), returncode \in ReturnCodes,
          wrote \in BOOLEAN :
            NetOptimize(c[1], c[2], c[3], k, returncode, wrote)

SolverSpec == SolverInit /\ [][SolverNext]_vars

\* ------------------------------------------------------------------------
\* C21

\* no solver can be selected for the call: "auto" with an inner block whose
\* type is not in the table, or a name that the factory does not know
SelectionFails(b, smspp_solver, inner_block_name) ==
    \/ /\ smspp_solver = "auto"
       /\ Has(b.blocks, inner_block_name)
       /\ LET t == block_type(Get(b.blocks, inner_block_name))
          IN  ~(/\ t.given
                /\ t.v.kind = "str"
                /\ t.v.s \in {"UCBlock", "InvestmentBlock", "SDDPBlock"})
    \/ smspp_solver \notin {"auto", "object", "UCBlockSolver",
                            "InvestmentBlockTestSolver", "InvestmentBlockSolver"}

\* C21: in every call of SMSNetwork.optimize the network is written to
\* fp_temp, over what is there, before optimize is called on the solver; when
\* no solver can be selected the call raises ValueError, nothing is written
\* and no solver is run.
C21_WriteBeforeSolver ==
    [][(last'.op = "SMSNetwork.optimize" /\ nops' = nops + 1) =>
            /\ \A i \in 1..Len(trace') :
                    trace'[i] = "optimize" =>
                        \E j \in 1..(i - 1) : trace'[j] = "to_netcdf"
            /\ (/\ InTrace(trace', "optimize")
                /\ ~(solver'.fp_solution.given /\ solver'.fp_solution.fp = last'.fp)) =>
                    files'[last'.fp] = to_netcdf(files, net, last'.fp, TRUE).fs[last'.fp]
            /\ SelectionFails(net, last'.component, last'.name) =>
                    /\ err' = "ValueError"
                    /\ trace' = << >>
                    /\ files' = files
                    /\ proc' = NoProcess]_vars

\* a call with "auto" has written the network and then run the solver of
\* the inner block's type
C21_Witness ==
    /\ last.op = "SMSNetwork.optimize"
    /\ last.component = "auto"
    /\ err = "ok"
    /\ Len(trace) >= 2
    /\ trace[1] = "to_netcdf"
    /\ trace[2] = "optimize"
    /\ files[last.fp].exists
    /\ solver.cls = "InvestmentBlockSolver"

\* ------------------------------------------------------------------------
\* C29

\* C29: when the solver process ends with a return code other than zero,
\* optimize raises ValueError after status, objective_value, lower_bound and
\* upper_bound have been set from the captured log, and neither writes the
\* log file nor loads the solution; the log file is written and the solution
\* read only when the return code is zero, and then a solution file that is
\* configured and does not exist raises FileNotFoundError.
C29_FailurePath ==
    [][(/\ nops' = nops + 1
        /\ last'.op = "optimize" \/ (last'.op = "SMSNetwork.optimize"
                                        /\ last'.component = "object")
        /\ proc'.pc = "done") =>
            LET r == parse(log_parser(solver'.cls), solver'.log.text)
            IN  /\ proc'.returncode # 0 =>
                    /\ err' = "ValueError"
                    /\ r.err = "ok"
                    /\ Fields(solver') = <<r.status, r.objective_value, r.lower_bound,
                                           r.upper_bound>>
                    /\ texts' = texts
                    /\ solver'.solution = solver.solution
                /\ (InTrace(trace', "write_log") \/ InTrace(trace', "load_solution")) =>
                        proc'.returncode = 0
                /\ (/\ proc'.returncode = 0
                    /\ solver'.fp_solution.given
                    /\ ~files'[solver'.fp_solution.fp].exists) =>
                        err' = "FileNotFoundError"]_vars

\* ------------------------------------------------------------------------
\* Specification of the loop of optimize that follows the solver process: the
\* process writes chunks to its two pipes and exits; the loop polls it and
\* reads the pipes

\* chunks the process writes before it exits
MaxChunks == 3

\* bytes a pipe holds before a write blocks
PipeCapacity == 4

\* bytes asked of one os.read (buffer=4096)
Buffer == 2

\* reads one call of _get_msg_from_pipe makes at most (range(10_000))
ReadLimit == 3

Streams == {"stdout", "stderr"}

\* the UTF-8 bytes of character n of a stream: one byte, or a lead byte and
\* a continuation byte
Byte(stream, n, part) == [stream |-> stream, n |-> n, part |-> part]

Character(stream, n) == [stream |-> stream, n |-> n]

\* the chunks a write can carry, by the bytes of their characters: "a", a
\* two-byte character such as "é", and "aé"
ChunkKinds == {"a", "é", "aé"}

encode(kind, stream, n) ==
    CASE kind = "a" -> <<Byte(stream, n + 1, "char")>>
      [] kind = "é" -> <<Byte(stream, n + 1, "lead"), Byte(stream, n + 1, "cont")>>
      [] OTHER -> <<Byte(stream, n + 1, "char"), Byte(stream, n + 2, "lead"),
                    Byte(stream, n + 2, "cont")>>

\* bytes.decode("utf-8"): the characters, or UnicodeDecodeError when the
\* bytes end inside a character or start inside one
RECURSIVE decode(_)
decode(bytes) ==
    IF bytes = << >>
    THEN [err |-> "ok", text |-> << >>]
    ELSE IF bytes[1].part = "char"
    THEN LET r == decode(Tail(bytes))
         IN  [err |-> r.err, text |-> <<Character(bytes[1].stream, bytes[1].n)>> \o r.text]
    ELSE IF bytes[1].part = "lead" /\ Len(bytes) >= 2 /\ bytes[2].part = "cont"
    THEN LET r == decode(Tail(Tail(bytes)))
         IN  [err |-> r.err, text |-> <<Character(bytes[1].stream, bytes[1].n)>> \o r.text]
    ELSE [err |-> "UnicodeDecodeError", text |-> << >>]

\* os.read(pipe.fileno(), buffer): up to buffer bytes of what the pipe holds
os_read(pipe, buffer) == SubSeq(pipe, 1, IF Len(pipe) < buffer THEN Len(pipe) ELSE buffer)

\* the pipe that the loop reads at pc
pipe_at(pc) == IF pc \in {"read_out", "drain_out"} THEN "stdout" ELSE "stderr"

\* psutil.Popen has returned: the process runs, and the loop is about to poll
MonitorInit ==
    /\ net = SMSNetwork_init(IntV(eProbFile), Dict, Dict, Dict, Dict).blk
    /\ files = [fp \in Paths |-> NoFile]
    /\ err = "ok"
    /\ last = LastCall("optimize")
    /\ wlog = << >>
    /\ nops = 0
    /\ handles = {}
    /\ lookup = NoLookup
    /\ heap = << >>
    /\ ret = NoReturn
    /\ solver = SMSPPSolverTool_init("UCBlockSolver", NetworkPath, "uc_solverconfig.txt",
                                     NoPath, NoPath)
    /\ texts = [fp \in LogPaths |-> NoText]
    /\ trace = <<"optimize", "Popen">>
    /\ parsed = NoResult
    /\ proc = [NoProcess EXCEPT !.alive = TRUE, !.pc = "poll", !.loop = TRUE]

\* the loop and the process change nothing but proc and, when the loop
\* raises, err
Monitored == UNCHANGED <<net, files, last, wlog, nops, handles, lookup, heap, ret,
                         solver, texts, trace, parsed>>

\* the process writes a chunk to a pipe that has room for it
Write(stream, kind) ==
    LET n == IF stream = "stdout" THEN proc.nout ELSE proc.nerr
        bytes == encode(kind, stream, n)
        chars == Len(decode(bytes).text)
    IN  /\ proc.alive
        /\ proc.nchunks < MaxChunks
        /\ Len(proc[stream]) + Len(bytes) <= PipeCapacity
        /\ proc' = [proc EXCEPT ![stream] = @ \o bytes,
                                !.nout = IF stream = "stdout" THEN @ + chars ELSE @,
                                !.nerr = IF stream = "stderr" THEN @ + chars ELSE @,
                                !.nchunks = @ + 1]
        /\ UNCHANGED err
        /\ Monitored

\* the process exits
Exit(returncode) ==
    /\ proc.alive
    /\ proc' = [proc EXCEPT !.alive = FALSE, !.returncode = returncode]
    /\ UNCHANGED err
    /\ Monitored

\* if process.poll() is not None: loop = False
Poll ==
    /\ proc.pc = "poll"
    /\ proc' = [proc EXCEPT !.loop = proc.alive, !.pc = "read_out", !.i = 0,
                            !.msg = << >>]
    /\ UNCHANGED err
    /\ Monitored

\* _get_msg_from_pipe returns msg to the statement at pc
returned(p, msg) ==
    CASE p.pc = "read_out" ->
            [p EXCEPT !.msg_out = msg, !.pc = "read_err", !.i = 0, !.msg = << >>]
      [] p.pc = "read_err" ->
            [p EXCEPT !.log = @ \o p.msg_out \o msg, !.log_error = @ \o msg,
                      !.pc = "sleep", !.i = 0, !.msg = << >>]
      [] p.pc = "drain_out" ->
            [p EXCEPT !.log = @ \o msg, !.pc = "drain_err", !.i = 0, !.msg = << >>]
      [] OTHER ->
            [p EXCEPT !.log = @ \o msg, !.log_error = @ \o msg, !.pc = "done",
                      !.i = 0, !.msg = << >>]

\* one turn of the loop of _get_msg_from_pipe: a read that finds nothing
\* (BlockingIOError, or the end of the file) ends the call, and so does the
\* last of the reads allowed
get_msg_from_pipe(p, stream) ==
    LET bytes == os_read(p[stream], Buffer)
        text == decode(bytes)
    IN  IF bytes = << >>
        THEN [err |-> "ok", proc |-> returned(p, p.msg)]
        ELSE IF text.err # "ok"
        THEN [err |-> text.err, proc |-> [p EXCEPT !.pc = "raised"]]
        ELSE IF p.i + 1 >= ReadLimit
        THEN [err |-> "ok",
              proc |-> returned([p EXCEPT ![stream] = SubSeq(@, Len(bytes) + 1, Len(@))],
                                p.msg \o text.text)]
        ELSE [err |-> "ok",
              proc |-> [p EXCEPT ![stream] = SubSeq(@, Len(bytes) + 1, Len(@)),
                                 !.msg = @ \o text.text, !.i = @ + 1]]

\* a read of the pipe that the loop, or the code after it, is at
Read ==
    /\ proc.pc \in {"read_out", "read_err", "drain_out", "drain_err"}
    /\ proc' = get_msg_from_pipe(proc, pipe_at(proc.pc)).proc
    /\ err' = get_msg_from_pipe(proc, pipe_at(proc.pc)).err
    /\ Monitored

\* time.sleep(tracking_period), and the test of the while
Sleep ==
    /\ proc.pc = "sleep"
    /\ proc' = [proc EXCEPT !.pc = IF proc.loop THEN "poll" ELSE "drain_out"]
    /\ UNCHANGED err
    /\ Monitored

Reader == Poll \/ Read \/ Sleep

Process ==
    \/ \E stream \in Streams, kind \in ChunkKinds : Write(stream, kind)
    \/ \E returncode \in ReturnCodes : Exit(returncode)

MonitorNext == Reader \/ Process

MonitorSpec == MonitorInit /\ [][MonitorNext]_vars

\* the interpreter keeps running the loop, and the process exits
FairMonitorSpec ==
    /\ MonitorSpec
    /\ WF_vars(Reader)
    /\ WF_vars(\E returncode \in ReturnCodes : Exit(returncode))

\* ------------------------------------------------------------------------
\* C30

\* the loop, and the drain after it, have ended
LoopEnded == proc.pc \in {"done", "raised"}

\* the characters 1..n of a stream, in order
Characters(stream, n) == [k \in 1..n |-> Character(stream, k)]

\* self._log holds what was written to a stream, in the order written
CapturedStream(stream, n) ==
    SelectSeq(proc.log, LAMBDA c : c.stream = stream) = Characters(stream, n)

\* C30: if the solver process exits, the loop of optimize ends, and the
\* captured log then holds every chunk that the process wrote to stdout and
\* to stderr, the chunks of each stream in the order written, whatever the
\* interleaving of the writes with the polls and the reads.
C30_MonitoringLoop ==
    /\ <>LoopEnded
    /\ [](LoopEnded => /\ ~proc.alive
                       /\ CapturedStream("stdout", proc.nout)
                       /\ CapturedStream("stderr", proc.nerr))

============================================================================
